---- MODULE Spec2Model ----
(***************************************************************************)
(* A model of the lease analysis engine of backend/business_intelligence.py *)
(* (LeaseAnalysisEngine): the pattern-cascade metric extractor, the risk    *)
(* scorer and the document entry point.                                     *)
(*                                                                          *)
(* Units.  Currency amounts are integers in cents (the code holds floats in *)
(* dollars), durations are integers (days, months), confidence weights are  *)
(* integers in hundredths, and a mean is kept as the pair [num, den] of its *)
(* sum and its count.                                                       *)
(*                                                                          *)
(* The text.  The code reads the text only through re.findall(pattern,..),  *)
(* `phrase in text` and len(text).  The model holds the length and the      *)
(* phrases, and draws what each re.findall call returns when the loop       *)
(* reaches that call; an empty text matches no pattern.                     *)
(***************************************************************************)
EXTENDS Integers, Sequences, FiniteSets, TLC

VARIABLES
    text,               \* the document text: [length, phrases, instances]
    pc,                 \* position of the running call
    kind,               \* index in Kinds of the metric whose loop is running
    pat,                \* index of the next pattern of patterns[kind] to try
    tried,              \* first capture (or NoMatch) of every pattern tried for kind
    extracted,          \* the kinds whose loop accepted a value (rent_extracted,
                        \* deposit_extracted, the `break` of the other loops)
    metrics,            \* the BusinessMetrics record being filled
    confidence_scores,  \* the list confidence_scores
    raised,             \* the exception that left the call, or "none"
    rebuilt,            \* BusinessMetrics(**analysis['business_metrics']), or NoRecord
    raw_score,          \* the local risk_score of _assess_risks when it returns
    risk,               \* the RiskAssessment returned, or NoRecord
    doc,                \* extraction_data, the argument of analyze_document
    analysis,           \* the dictionary analyze_document returns, or NoRecord
    returned,           \* what a method called on its own returned, or NoRecord
    portfolio,          \* the locals and the result of analyze_portfolio
    engine,             \* the tables of the LeaseAnalysisEngine the calls share
    calls               \* the frames of the analyze_document calls in progress

vars == <<text, pc, kind, pat, tried, extracted, metrics, confidence_scores,
          raised, rebuilt, raw_score, risk, doc, analysis, returned,
          portfolio, engine, calls>>

\* the state of the portfolio analyzer and of the calls on a shared engine
others == <<returned, portfolio, engine, calls>>

----------------------------------------------------------------------------
(* Bounds of the model *)

\* the most matches one re.findall call returns
MaxMatches == 2

\* the most phrases of the risk tables in one text
MaxPhrases == 3

\* the most matches of the patterns of one compliance category in one text
MaxInstances == 2

\* the most documents of one portfolio
MaxDocs == 2

\* the analyze_document calls that run at once on one engine
MaxCalls == 2

\* the characters of a text that is normalized character by character
MaxChars == 5

\* the requests the business API serves for one job
MaxRequests == 3

----------------------------------------------------------------------------
(* AnalysisConfig *)

MIN_RENT == 100
MAX_RENT == 100000
MIN_DEPOSIT == 0
MAX_DEPOSIT == 100000
MIN_PET_FEE == 0
MAX_PET_FEE == 10000
MIN_NOTICE_PERIOD == 1
MAX_NOTICE_PERIOD == 365
MIN_LEASE_TERM == 1
MAX_LEASE_TERM == 60

\* the literal bounds of the late fee, application fee and parking fee loops
MAX_LATE_FEE == 500
MAX_APPLICATION_FEE == 500
MAX_PARKING_FEE == 1000

Dollars(n) == n * 100

----------------------------------------------------------------------------
(* Strings: a string is a sequence of one-character strings *)

Digits == <<"0", "1", "2", "3", "4", "5", "6", "7", "8", "9">>

IsDigit(c) == \E d \in 1..10 : Digits[d] = c

DigitValue(c) == (CHOOSE d \in 1..10 : Digits[d] = c) - 1

\* str.replace(ch, '')
Replace(s, ch) == SelectSeq(s, LAMBDA c : c # ch)

RECURSIVE DigitsToInt(_)
DigitsToInt(s) ==
    IF s = <<>> THEN 0
    ELSE DigitsToInt(SubSeq(s, 1, Len(s) - 1)) * 10 + DigitValue(s[Len(s)])

Parsed(v) == [ok |-> TRUE, value |-> v, error |-> "none"]
Failed(e) == [ok |-> FALSE, value |-> 0, error |-> e]

\* float(s) of a string of digits and points, in cents: ValueError unless s is
\* digits with at most one point and at least one digit.  Digits past the
\* second decimal are dropped (no capture of the model has any).
PyFloat(s) ==
    LET dots  == {i \in 1..Len(s) : s[i] = "."}
        wellformed ==
            /\ \A i \in 1..Len(s) : IsDigit(s[i]) \/ s[i] = "."
            /\ Cardinality(dots) <= 1
            /\ \E i \in 1..Len(s) : IsDigit(s[i])
        p     == IF dots = {} THEN Len(s) + 1 ELSE CHOOSE i \in dots : TRUE
        whole == SubSeq(s, 1, p - 1)
        frac  == SubSeq(s, p + 1, Len(s))
        d1    == IF Len(frac) >= 1 THEN DigitValue(frac[1]) ELSE 0
        d2    == IF Len(frac) >= 2 THEN DigitValue(frac[2]) ELSE 0
    IN  IF wellformed
        THEN Parsed(DigitsToInt(whole) * 100 + d1 * 10 + d2)
        ELSE Failed("ValueError")

\* int(s): ValueError unless s is a non-empty string of digits
PyInt(s) ==
    IF s # <<>> /\ \A i \in 1..Len(s) : IsDigit(s[i])
    THEN Parsed(DigitsToInt(s))
    ELSE Failed("ValueError")

----------------------------------------------------------------------------
(* The pattern tables and the nine extraction loops *)

\* the metric kinds in the order _extract_business_metrics runs their loops
Kinds == <<"rent", "security_deposit", "pet_fee", "late_fee", "application_fee",
           "parking_fee", "notice_period", "lease_term", "termination_fee">>

\* self.patterns: the number of patterns of each list ('utilities' has a list
\* that no loop reads)
patterns ==
    [rent |-> 8, security_deposit |-> 4, pet_fee |-> 4, late_fee |-> 3,
     application_fee |-> 3, parking_fee |-> 3, utilities |-> 4,
     notice_period |-> 3, lease_term |-> 3, termination_fee |-> 3]

FieldOfParkingAsUtilities ==
    [rent |-> "monthly_rent", security_deposit |-> "security_deposit",
     pet_fee |-> "pet_fees", late_fee |-> "late_fee",
     application_fee |-> "application_fee", parking_fee |-> "utility_costs",
     notice_period |-> "notice_period_days", lease_term |-> "lease_duration_months",
     termination_fee |-> "early_termination_penalty"]

\* the BusinessMetrics field each loop assigns
FieldOf ==
    [rent |-> "monthly_rent", security_deposit |-> "security_deposit",
     pet_fee |-> "pet_fees", late_fee |-> "late_fee",
     application_fee |-> "application_fee", parking_fee |-> "parking_fee",
     notice_period |-> "notice_period_days", lease_term |-> "lease_duration_months",
     termination_fee |-> "early_termination_penalty"]

IntKinds == {"notice_period", "lease_term"}

\* float(matches[0].replace(',', '').replace(' ', '')), or int(matches[0])
ParseCapture(k, s) ==
    IF k \in IntKinds THEN PyInt(s)
    ELSE PyFloat(Replace(Replace(s, ","), " "))

\* the range test of each loop
InRangeNoUpper(k, v) ==
    CASE k = "rent" -> Dollars(MIN_RENT) <= v
      [] k = "notice_period" -> MIN_NOTICE_PERIOD <= v
      [] k = "lease_term" -> MIN_LEASE_TERM <= v
      [] OTHER -> 0 <= v

InRange(k, v) ==
    CASE k = "rent" -> Dollars(MIN_RENT) <= v /\ v <= Dollars(MAX_RENT)
      [] k = "security_deposit" -> Dollars(MIN_DEPOSIT) <= v /\ v <= Dollars(MAX_DEPOSIT)
      [] k = "pet_fee" -> Dollars(MIN_PET_FEE) <= v /\ v <= Dollars(MAX_PET_FEE)
      [] k = "late_fee" -> 0 <= v /\ v <= Dollars(MAX_LATE_FEE)
      [] k = "application_fee" -> 0 <= v /\ v <= Dollars(MAX_APPLICATION_FEE)
      [] k = "parking_fee" -> 0 <= v /\ v <= Dollars(MAX_PARKING_FEE)
      [] k = "notice_period" -> MIN_NOTICE_PERIOD <= v /\ v <= MAX_NOTICE_PERIOD
      [] k = "lease_term" -> MIN_LEASE_TERM <= v /\ v <= MAX_LEASE_TERM
      [] k = "termination_fee" -> v >= 0

\* confidence_scores.append(w) of an accepting loop, in hundredths; the late
\* fee, application fee, parking fee and termination fee loops append nothing
AcceptWeight ==
    [rent |-> <<90>>, security_deposit |-> <<85>>, pet_fee |-> <<75>>,
     late_fee |-> <<>>, application_fee |-> <<>>, parking_fee |-> <<>>,
     notice_period |-> <<80>>, lease_term |-> <<85>>, termination_fee |-> <<>>]

\* `if not rent_extracted: confidence_scores.append(0.0)`: only the rent and
\* the deposit loop have it
MissWeight(k) == IF k \in {"rent", "security_deposit"} THEN <<0>> ELSE <<>>

\* the except clause of every loop
ExceptOnlyIndexError == {"IndexError"}

ExceptClause == {"ValueError", "IndexError"}

\* the next pattern index after an accepted value: `break` leaves the loop
NoBreak(k, p) == p + 1

Break(k, p) == patterns[k] + 1

----------------------------------------------------------------------------
(* BusinessMetrics *)

Mean(scores) ==
    LET RECURSIVE Sum(_)
        Sum(s) == IF s = <<>> THEN 0 ELSE Head(s) + Sum(Tail(s))
    IN  IF scores = <<>> THEN [num |-> 0, den |-> 1]
        ELSE [num |-> Sum(scores), den |-> Len(scores)]

TotalMonthlyCostNoParking(m) == m.monthly_rent + m.pet_fees + m.utility_costs

TotalMonthlyCost(m) ==
    m.monthly_rent + m.pet_fees + m.utility_costs + m.parking_fee

TotalLeaseValueFromRent(m) ==
    IF m.lease_duration_months > 0
    THEN m.monthly_rent * m.lease_duration_months
    ELSE m.total_lease_value

\* `if lease_duration_months > 0: total_lease_value = ...`; else it is left alone
TotalLeaseValue(m) ==
    IF m.lease_duration_months > 0
    THEN m.total_monthly_cost * m.lease_duration_months
    ELSE m.total_lease_value

\* the derived fields, as __post_init__ and the end of the extractor compute them
Derive(m) ==
    LET m1 == [m EXCEPT !.total_monthly_cost = TotalMonthlyCost(m)]
    IN  [m1 EXCEPT !.total_lease_value = TotalLeaseValue(m1)]

\* BusinessMetrics(): every field at its default, then __post_init__
BusinessMetrics ==
    Derive([monthly_rent |-> 0, security_deposit |-> 0, pet_fees |-> 0,
            utility_costs |-> 0, total_monthly_cost |-> 0,
            lease_duration_months |-> 0, total_lease_value |-> 0,
            notice_period_days |-> 0, early_termination_penalty |-> 0,
            late_fee |-> 0, application_fee |-> 0, parking_fee |-> 0,
            extraction_confidence |-> [num |-> 0, den |-> 1]])

----------------------------------------------------------------------------
(* The text *)

Categories == {"discrimination", "illegal_fees", "habitability"}

NoInstances == [c \in Categories |-> 0]

\* the phrases of the tables that hold another phrase the code looks for
Contains(p) ==
    CASE p \in {"indemnify landlord", "at landlord's sole discretion",
                "landlord not responsible", "no repairs by landlord",
                "landlord responsible for repairs"} -> {"landlord"}
      [] p \in {"tenant assumes all risk", "tenant liable for all damages",
                "tenant responsible for all repairs", "quiet tenants only",
                "professional tenants", "tenant pays utilities"} -> {"tenant"}
      [] p = "rent includes utilities" -> {"rent"}
      [] p \in {"no pet deposit", "non-refundable deposit"} -> {"deposit"}
      [] OTHER -> {}

\* the phrases of the tables that a pattern of self.compliance_patterns matches
Triggers(c) ==
    CASE c = "habitability" ->
             {"no warranty", "as-is condition", "tenant responsible for all repairs"}
      [] c = "discrimination" ->
             {"no children", "adults only", "mature individuals preferred"}
      [] c = "illegal_fees" -> {"non-refundable deposit"}

\* a text that can exist: an empty text holds nothing, a phrase brings the
\* phrases inside it, and every phrase a compliance pattern matches is one of
\* the matches of its category
WellFormed(t) ==
    /\ t.length = 0 => t.phrases = {} /\ t.instances = NoInstances
    /\ \A p \in t.phrases : Contains(p) \subseteq t.phrases
    /\ \A c \in Categories :
           t.instances[c] >= Cardinality(Triggers(c) \cap t.phrases)

\* the text of length n with the phrases P (and the phrases inside them) and
\* the compliance matches inst
TextOf(n, P, inst) ==
    [length |-> n, phrases |-> P \cup UNION {Contains(p) : p \in P},
     instances |-> inst]

----------------------------------------------------------------------------
(* What re.findall returns *)

NoMatch == <<"no match">>

\* the captures a pattern of each kind may produce from the texts of the model
ExtractCaptures ==
    [rent |-> {<<"5", "0">>, <<"1", ",", "0", "0", "0">>,
               <<"2", ",", "4", "0", "7", ".", "0", "0">>,
               <<"2", "0", "0", "0", "0", "0">>},
     security_deposit |-> {<<",">>, <<"0">>,
               <<"2", ",", "9", "0", "7", ".", "0", "0">>},
     pet_fee |-> {<<"2", "5">>, <<"2", "0", "0", "0", "0">>},
     late_fee |-> {<<"7", "5", ".", "5">>, <<"6", "0", "0">>},
     application_fee |-> {<<"1", "5", "0">>, <<"5", "0", "0", ".", "0", "1">>},
     parking_fee |-> {<<"5", "0">>, <<"1", "0", "0", "1">>},
     notice_period |-> {<<"0">>, <<"9", "0">>, <<"4", "0", "0">>},
     lease_term |-> {<<"1", "2">>, <<"6", "1">>},
     termination_fee |-> {<<",">>, <<"2", ",", "5", "0", "0">>}]

\* every list of at most n elements of S
SeqsUpTo(S, n) == UNION {[1..i -> S] : i \in 0..n}

\* the results re.findall(pattern, text_lower) may have for a pattern of kind k,
\* the captures drawn from C[k]: the list of the captures of all matches
FindAll(t, C, k) ==
    IF t.length = 0 THEN {<<>>} ELSE SeqsUpTo(C[k], MaxMatches)

----------------------------------------------------------------------------
(* _extract_business_metrics *)

Kind == Kinds[kind]

LoopDone == pat > patterns[Kind]

\* lines 282-287: the record, the list, the loop of the first kind
StartExtract ==
    /\ metrics' = BusinessMetrics
    /\ confidence_scores' = <<>>
    /\ kind' = 1
    /\ pat' = 1
    /\ tried' = <<>>
    /\ extracted' = {}

\* one iteration of `for pattern in self.patterns[kind]`
TryPattern(C) ==
    /\ pc = "extract"
    /\ ~LoopDone
    /\ \E matches \in FindAll(text, C, Kind) :
         IF matches = <<>>
         THEN /\ tried' = Append(tried, NoMatch)
              /\ pat' = pat + 1
              /\ UNCHANGED <<pc, extracted, metrics, confidence_scores, raised>>
         ELSE LET r == ParseCapture(Kind, matches[1])
              IN  /\ tried' = Append(tried, matches[1])
                  /\ IF ~r.ok
                     THEN IF r.error \in ExceptClause
                          THEN /\ pat' = pat + 1
                               /\ UNCHANGED <<pc, extracted, metrics,
                                              confidence_scores, raised>>
                          ELSE /\ raised' = r.error
                               /\ pc' = "raised"
                               /\ UNCHANGED <<pat, extracted, metrics,
                                              confidence_scores>>
                     ELSE IF InRange(Kind, r.value)
                          THEN /\ metrics' = [metrics EXCEPT ![FieldOf[Kind]] = r.value]
                               /\ confidence_scores' =
                                      confidence_scores \o AcceptWeight[Kind]
                               /\ extracted' = extracted \cup {Kind}
                               /\ pat' = Break(Kind, pat)
                               /\ UNCHANGED <<pc, raised>>
                          ELSE /\ pat' = pat + 1
                               /\ UNCHANGED <<pc, extracted, metrics,
                                              confidence_scores, raised>>
    /\ UNCHANGED <<text, kind, rebuilt, raw_score, risk, doc, analysis, others>>

\* lines 431-446: the confidence and the derived fields
FinishExtract(m, scores) ==
    Derive([m EXCEPT !.extraction_confidence = Mean(scores)])

\* after a loop: the `if not ..._extracted` append, then the next loop, or
\* after the last loop the end of the function
EndLoop ==
    /\ pc = "extract"
    /\ LoopDone
    /\ LET scores == IF Kind \in extracted THEN confidence_scores
                     ELSE confidence_scores \o MissWeight(Kind)
       IN  /\ confidence_scores' = scores
           /\ IF kind < Len(Kinds)
              THEN /\ kind' = kind + 1
                   /\ pat' = 1
                   /\ tried' = <<>>
                   /\ UNCHANGED <<pc, metrics>>
              ELSE /\ metrics' = FinishExtract(metrics, scores)
                   /\ pc' = "extracted"
                   /\ UNCHANGED <<kind, pat, tried>>
    /\ UNCHANGED <<text, extracted, raised, rebuilt, raw_score, risk, doc, analysis, others>>

NoRecord == [none |-> TRUE]

\* the extractor or the scorer called on its own, not by analyze_document
NoDoc == [none |-> TRUE]

\* no method called on its own, no portfolio, no engine shared by calls
OthersIdle ==
    /\ returned = NoRecord
    /\ portfolio = NoRecord
    /\ engine = NoRecord
    /\ calls = <<>>

\* analyze_portfolio, line 940: the record is built again from its dictionary,
\* which runs __post_init__ on the stored fields
Rebuild ==
    /\ pc = "extracted"
    /\ rebuilt = NoRecord
    /\ rebuilt' = Derive(metrics)
    /\ UNCHANGED <<text, pc, kind, pat, tried, extracted, metrics,
                   confidence_scores, raised, raw_score, risk, doc, analysis, others>>

----------------------------------------------------------------------------
(* The extractor alone: extract(text) for every text of the model *)

ExtractTexts == {TextOf(n, {}, NoInstances) : n \in {0, 120}}

InitExtract ==
    /\ text \in ExtractTexts
    /\ pc = "extract"
    /\ metrics = BusinessMetrics
    /\ confidence_scores = <<>>
    /\ kind = 1
    /\ pat = 1
    /\ tried = <<>>
    /\ extracted = {}
    /\ raised = "none"
    /\ rebuilt = NoRecord
    /\ raw_score = 0
    /\ risk = NoRecord
    /\ doc = NoDoc
    /\ analysis = NoRecord
    /\ OthersIdle

NextExtract ==
    \/ TryPattern(ExtractCaptures)
    \/ EndLoop
    \/ Rebuild

SpecExtract == InitExtract /\ [][NextExtract]_vars

----------------------------------------------------------------------------
(* _assess_risks *)

\* aggressive_terms and unfavorable_clauses, in table order
aggressive_terms ==
    << [term |-> "strictly enforced", severity |-> 5],
       [term |-> "no exceptions", severity |-> 5],
       [term |-> "immediate eviction", severity |-> 10],
       [term |-> "forfeit all rights", severity |-> 12],
       [term |-> "waive all claims", severity |-> 12],
       [term |-> "hold harmless", severity |-> 8],
       [term |-> "indemnify landlord", severity |-> 10],
       [term |-> "at landlord's sole discretion", severity |-> 7] >>

unfavorable_clauses ==
    << [term |-> "landlord not responsible", severity |-> 8],
       [term |-> "tenant assumes all risk", severity |-> 10],
       [term |-> "no warranty", severity |-> 6],
       [term |-> "as-is condition", severity |-> 7],
       [term |-> "tenant liable for all damages", severity |-> 9],
       [term |-> "no repairs by landlord", severity |-> 12],
       [term |-> "waiver of habitability", severity |-> 15] >>

\* the keys of self.compliance_patterns, in the order of the dictionary
compliance_patterns == <<"discrimination", "illegal_fees", "habitability">>

RISK_LOW_THRESHOLD == 25
RISK_MEDIUM_THRESHOLD == 50
RISK_HIGH_THRESHOLD == 75

\* risk_factors[name] = points
SetFactor(f, name, points) ==
    [n \in DOMAIN f \cup {name} |-> IF n = name THEN points ELSE f[n]]

\* the locals of _assess_risks before the first rule
RiskStart ==
    [risk_score |-> 0, risk_factors |-> <<>>, red_flags |-> <<>>,
     compliance_issues |-> <<>>, recommendations |-> <<>>,
     mitigation_strategies |-> <<>>]

\* one rule that fires: the score, the factor, and the flag and mitigation
\* entries it appends (each a list of zero or one element)
Fire(s, name, points, flag, mitigation) ==
    [s EXCEPT !.risk_score = @ + points,
              !.risk_factors = SetFactor(@, name, points),
              !.red_flags = @ \o flag,
              !.mitigation_strategies = @ \o mitigation]

DepositRuleBothTiers(s, m) ==
    LET s1 == IF m.security_deposit > m.monthly_rent * 2
              THEN Fire(s, "excessive_deposit", 15,
                        <<<<"Excessive security deposit (>2x monthly rent)">>>>, <<>>)
              ELSE s
    IN  IF 2 * m.security_deposit > 3 * m.monthly_rent
        THEN Fire(s1, "high_deposit", 8, <<>>, <<>>)
        ELSE s1

\* lines 467-481: the deposit against 2x and 1.5x the rent
DepositRule(s, m) ==
    IF m.security_deposit > m.monthly_rent * 2
    THEN Fire(s, "excessive_deposit", 15,
              <<<<"Excessive security deposit (>2x monthly rent)">>>>,
              <<[issue |-> "High security deposit",
                 strategy |-> "Negotiate deposit reduction to 1.5x monthly rent",
                 priority |-> "high"]>>)
    ELSE IF 2 * m.security_deposit > 3 * m.monthly_rent
    THEN Fire(s, "high_deposit", 8, <<>>, <<>>)
    ELSE s

\* lines 483-496: the termination penalty against 2x and 1x the rent
TerminationRule(s, m) ==
    IF m.early_termination_penalty > m.monthly_rent * 2
    THEN Fire(s, "high_termination_penalty", 12,
              <<<<"High early termination penalty (>2x monthly rent)">>>>,
              <<[issue |-> "Excessive termination penalty",
                 strategy |-> "Request cap at 1 month rent or prorated amount",
                 priority |-> "medium"]>>)
    ELSE IF m.early_termination_penalty > m.monthly_rent
    THEN Fire(s, "termination_penalty", 6, <<>>, <<>>)
    ELSE s

\* lines 498-511: the notice period against 60 and 45 days
NoticeRule(s, m) ==
    IF m.notice_period_days > 60
    THEN Fire(s, "extended_notice", 10,
              <<<<"Extended notice period requirement (days)",
                  m.notice_period_days>>>>,
              <<[issue |-> "Long notice period",
                 strategy |-> "Negotiate reduction to 30 days standard notice",
                 priority |-> "low"]>>)
    ELSE IF m.notice_period_days > 45
    THEN Fire(s, "long_notice", 5, <<>>, <<>>)
    ELSE s

\* lines 513-518: late_fee > monthly_rent * 0.1
LateFeeRule(s, m) ==
    IF 10 * m.late_fee > m.monthly_rent
    THEN Fire(s, "excessive_late_fee", 8,
              <<<<"Excessive late fee ($)", m.late_fee>>>>, <<>>)
    ELSE s

\* lines 520-524: application_fee > 100
ApplicationFeeRule(s, m) ==
    IF m.application_fee > Dollars(100)
    THEN Fire(s, "high_application_fee", 5, <<>>, <<>>)
    ELSE s

ScanTermsFirstOnly(s, t, table, label, i) ==
    LET present == {j \in i..Len(table) : table[j].term \in t.phrases}
        first == CHOOSE j \in present : \A k \in present : j <= k
    IN  IF present = {} THEN s
        ELSE [s EXCEPT !.risk_score = @ + table[first].severity,
                       !.red_flags = Append(@, <<label, table[first].term>>)]

\* the loops of lines 541-547 and 563-569 over the rows i.. of a table: every
\* phrase of the table that is in the text adds its severity and a red flag
RECURSIVE ScanTerms(_, _, _, _, _)
ScanTerms(s, t, table, label, i) ==
    IF i > Len(table) THEN s
    ELSE ScanTerms(
             IF table[i].term \in t.phrases
             THEN [s EXCEPT !.risk_score = @ + table[i].severity,
                            !.red_flags = Append(@, <<label, table[i].term>>)]
             ELSE s,
             t, table, label, i + 1)

\* how many phrases of a table are in the text: aggressive_count, unfavorable_count
CountTerms(t, table) ==
    Cardinality({i \in 1..Len(table) : table[i].term \in t.phrases})

\* lines 549-550 and 571-572: risk_factors[name] = count * points
CountFactor(s, name, count, points) ==
    IF count > 0
    THEN [s EXCEPT !.risk_factors = SetFactor(@, name, count * points)]
    ELSE s

\* f'compliance_{issue_type}'
ComplianceFactor ==
    [discrimination |-> "compliance_discrimination",
     illegal_fees |-> "compliance_illegal_fees",
     habitability |-> "compliance_habitability"]

\* f'{issue_type.replace("_", " ").title()} Compliance'
ComplianceTitle ==
    [discrimination |-> "Discrimination Compliance",
     illegal_fees |-> "Illegal Fees Compliance",
     habitability |-> "Habitability Compliance"]

\* lines 575-595 for the categories i.. : violations_found holds the matches
\* of all the patterns of the category, t.instances[category] of them
RECURSIVE ComplianceRules(_, _, _)
ComplianceRules(s, t, i) ==
    IF i > Len(compliance_patterns) THEN s
    ELSE LET issue_type == compliance_patterns[i]
             found      == t.instances[issue_type]
             severity   == IF issue_type = "discrimination" THEN 25 ELSE 15
         IN  ComplianceRules(
                 IF found > 0
                 THEN [s EXCEPT
                         !.compliance_issues =
                             Append(@, <<"Potential violation: instance(s)",
                                         issue_type, found>>),
                         !.risk_score = @ + severity,
                         !.risk_factors =
                             SetFactor(@, ComplianceFactor[issue_type], severity),
                         !.mitigation_strategies =
                             Append(@, [issue |-> ComplianceTitle[issue_type],
                                        strategy |-> "Consult legal counsel for compliance review",
                                        priority |-> "critical"])]
                 ELSE s,
                 t, i + 1)

RecommendInclusive(s, m) ==
    LET deposit ==
            IF 2 * m.security_deposit > 3 * m.monthly_rent
            THEN <<<<"Negotiate security deposit from $ to $ (1.5x rent)",
                     m.security_deposit, (3 * m.monthly_rent) \div 2>>>>
            ELSE <<>>
        notice ==
            IF m.notice_period_days > 30
            THEN <<<<"Request notice period reduction from to 30 days (industry standard)",
                     m.notice_period_days>>>>
            ELSE <<>>
        legal ==
            IF s.risk_score >= RISK_HIGH_THRESHOLD
            THEN << <<"CRITICAL: Engage legal counsel before signing">>,
                    <<"Document all concerns in writing with landlord">> >>
            ELSE IF s.risk_score >= RISK_MEDIUM_THRESHOLD
            THEN <<<<"Consider legal review of high-risk clauses">>>>
            ELSE <<>>
        illegal ==
            IF Len(s.compliance_issues) > 0
            THEN <<<<"Request removal of potentially illegal clauses">>>>
            ELSE <<>>
        flags ==
            IF Len(s.red_flags) > 5
            THEN <<<<"Multiple red flags detected - consider alternative properties">>>>
            ELSE <<>>
    IN  [s EXCEPT !.recommendations = @ \o deposit \o notice \o legal \o illegal \o flags]

\* lines 597-620: the recommendations, from the metrics and the final locals
Recommend(s, m) ==
    LET deposit ==
            IF 2 * m.security_deposit > 3 * m.monthly_rent
            THEN <<<<"Negotiate security deposit from $ to $ (1.5x rent)",
                     m.security_deposit, (3 * m.monthly_rent) \div 2>>>>
            ELSE <<>>
        notice ==
            IF m.notice_period_days > 30
            THEN <<<<"Request notice period reduction from to 30 days (industry standard)",
                     m.notice_period_days>>>>
            ELSE <<>>
        legal ==
            IF s.risk_score > RISK_HIGH_THRESHOLD
            THEN << <<"CRITICAL: Engage legal counsel before signing">>,
                    <<"Document all concerns in writing with landlord">> >>
            ELSE IF s.risk_score > RISK_MEDIUM_THRESHOLD
            THEN <<<<"Consider legal review of high-risk clauses">>>>
            ELSE <<>>
        illegal ==
            IF Len(s.compliance_issues) > 0
            THEN <<<<"Request removal of potentially illegal clauses">>>>
            ELSE <<>>
        flags ==
            IF Len(s.red_flags) > 5
            THEN <<<<"Multiple red flags detected - consider alternative properties">>>>
            ELSE <<>>
    IN  [s EXCEPT !.recommendations = @ \o deposit \o notice \o legal \o illegal \o flags]

RiskLevelStrict(score) ==
    IF score < RISK_LOW_THRESHOLD THEN "low"
    ELSE IF score < RISK_MEDIUM_THRESHOLD THEN "medium"
    ELSE IF score < RISK_HIGH_THRESHOLD THEN "high"
    ELSE "critical"

\* lines 622-630: the level, from the score the rules added up
RiskLevelOf(score) ==
    IF score <= RISK_LOW_THRESHOLD THEN "low"
    ELSE IF score <= RISK_MEDIUM_THRESHOLD THEN "medium"
    ELSE IF score <= RISK_HIGH_THRESHOLD THEN "high"
    ELSE "critical"

Unclamped(score) == score

ClampedAtHigh(score) ==
    IF score < RISK_HIGH_THRESHOLD THEN score ELSE RISK_HIGH_THRESHOLD

\* line 636: min(risk_score, 100)
StoredScore(score) == IF score < 100 THEN score ELSE 100

FinancialExposureOneRent(m) ==
    m.security_deposit + m.early_termination_penalty + m.monthly_rent

\* _calculate_financial_exposure
FinancialExposure(m) ==
    m.security_deposit + m.early_termination_penalty + (m.monthly_rent * 2)

\* the table loop of _identify_tenant_favorable_terms and of
\* _identify_landlord_favorable_terms: the descriptions of the phrases found
RECURSIVE FavorableTerms(_, _, _)
FavorableTerms(t, table, i) ==
    IF i > Len(table) THEN <<>>
    ELSE (IF table[i][1] \in t.phrases THEN <<table[i][2]>> ELSE <<>>)
         \o FavorableTerms(t, table, i + 1)

favorable_patterns ==
    << <<"landlord responsible for repairs", "Landlord handles maintenance">>,
       <<"rent includes utilities", "Utilities included in rent">>,
       <<"no pet deposit", "No pet deposit required">>,
       <<"month-to-month", "Flexible lease terms">> >>

landlord_patterns ==
    << <<"tenant responsible for all repairs", "Tenant handles all maintenance">>,
       <<"no warranty", "Property sold as-is">>,
       <<"liquidated damages", "Early termination penalties">>,
       <<"automatic renewal", "Auto-renewal clause">> >>

\* the locals of _assess_risks when every rule has run (line 620)
RiskLocals(t, m) ==
    LET s1 == ApplicationFeeRule(LateFeeRule(NoticeRule(
                  TerminationRule(DepositRule(RiskStart, m), m), m), m), m)
        s2 == CountFactor(
                  ScanTerms(s1, t, aggressive_terms, "Aggressive lease language", 1),
                  "aggressive_language", CountTerms(t, aggressive_terms), 5)
        s3 == CountFactor(
                  ScanTerms(s2, t, unfavorable_clauses, "Tenant-unfavorable clause", 1),
                  "unfavorable_terms", CountTerms(t, unfavorable_clauses), 7)
    IN  Recommend(ComplianceRules(s3, t, 1), m)

\* the RiskAssessment of lines 634-645
AssessRisks(t, m) ==
    LET s == RiskLocals(t, m)
    IN  [risk_level |-> RiskLevelOf(s.risk_score),
         risk_score |-> StoredScore(s.risk_score),
         financial_exposure |-> FinancialExposure(m),
         compliance_issues |-> s.compliance_issues,
         tenant_favorable_terms |-> FavorableTerms(t, favorable_patterns, 1),
         landlord_favorable_terms |-> FavorableTerms(t, landlord_patterns, 1),
         red_flags |-> s.red_flags,
         recommendations |-> s.recommendations,
         risk_factors |-> s.risk_factors,
         mitigation_strategies |-> s.mitigation_strategies]

\* the call of _assess_risks(text, metrics)
Assess ==
    /\ pc = "assess"
    /\ raw_score' = RiskLocals(text, metrics).risk_score
    /\ risk' = AssessRisks(text, metrics)
    /\ pc' = "assessed"
    /\ UNCHANGED <<text, kind, pat, tried, extracted, metrics, confidence_scores,
                   raised, rebuilt, doc, analysis, others>>

----------------------------------------------------------------------------
(* The other analyses of analyze_document *)

\* a / b as the pair of its terms; b = 0 is Python's ZeroDivisionError
Div(a, b) == [num |-> a, den |-> b]

Whole(n) == Div(n, 1)

\* _compare_to_market(value, (2200, 2800))
CompareToMarket(value) ==
    IF value < Dollars(2200) THEN "below_market"
    ELSE IF value > Dollars(2800) THEN "above_market"
    ELSE "market_rate"

SecurityDepositRatioUnguarded(m) == Div(m.security_deposit, m.monthly_rent)

\* line 661: security_deposit / monthly_rent if monthly_rent > 0 else 0
SecurityDepositRatio(m) ==
    IF m.monthly_rent > 0 THEN Div(m.security_deposit, m.monthly_rent)
    ELSE Whole(0)

RentToDepositFactorUnguarded(m) ==
    IF m.security_deposit = 0 \/ 10 * m.monthly_rent <= 25 * m.security_deposit
    THEN Div(10 * m.monthly_rent, m.security_deposit)
    ELSE Whole(25)

\* line 830: min(monthly_rent / security_deposit * 10, 25) if
\* security_deposit > 0 else 25
RentToDepositFactor(m) ==
    IF m.security_deposit > 0
    THEN IF 10 * m.monthly_rent <= 25 * m.security_deposit
         THEN Div(10 * m.monthly_rent, m.security_deposit)
         ELSE Whole(25)
    ELSE Whole(25)

\* _calculate_cost_efficiency: 0 for a record without monthly cost, else the
\* sum of the four factors
CostEfficiency(m) ==
    IF m.total_monthly_cost = 0 THEN Whole(0)
    ELSE LET ratio == RentToDepositFactor(m)
             fee == IF m.pet_fees <= Dollars(50) THEN 25 ELSE 10
             notice == IF m.notice_period_days <= 30 THEN 25 ELSE 10
             penalty == IF m.early_termination_penalty <= m.monthly_rent
                        THEN 25 ELSE 10
         IN  Div(ratio.num + (fee + notice + penalty) * ratio.den, ratio.den)

\* _analyze_market_position
AnalyzeMarketPosition(m) ==
    [rent_vs_market |-> CompareToMarket(m.monthly_rent),
     security_deposit_ratio |-> SecurityDepositRatio(m),
     pet_fee_competitiveness |->
         IF m.pet_fees > Dollars(25) THEN "above_market" ELSE "below_market",
     notice_period_favorability |->
         IF m.notice_period_days <= 30 THEN "tenant_favorable"
         ELSE "landlord_favorable",
     overall_market_position |-> "competitive",
     cost_efficiency_score |-> CostEfficiency(m)]

\* _classify_property
ClassifyProperty(m) ==
    IF m.monthly_rent >= Dollars(3000) THEN "luxury"
    ELSE IF m.monthly_rent >= Dollars(2000) THEN "mid_market"
    ELSE "affordable"

\* _estimate_retention_probability, in thousandths: the base 0.7 less
\* risk_score / 100 * 0.3, less 0.1 for a deposit above twice the rent, less
\* 0.1 for a notice above 60 days, and at least 0.1
RetentionProbability(m, ra) ==
    LET penalty == 3 * ra.risk_score
                 + (IF m.monthly_rent > 0
                       /\ m.security_deposit > 2 * m.monthly_rent
                    THEN 100 ELSE 0)
                 + (IF m.notice_period_days > 60 THEN 100 ELSE 0)
    IN  IF 700 - penalty > 100 THEN 700 - penalty ELSE 100

\* _calculate_revenue_potential, in cents a year
RevenuePotential(m) ==
    IF m.monthly_rent > 0
    THEN IF (Dollars(2600) - m.monthly_rent) * 12 > 0
         THEN (Dollars(2600) - m.monthly_rent) * 12 ELSE 0
    ELSE 0

\* _calculate_operational_efficiency
OperationalEfficiency(ra) ==
    IF 100 - ra.risk_score > 0 THEN 100 - ra.risk_score ELSE 0

\* _assess_investment_attractiveness
InvestmentAttractiveness(m, ra) ==
    LET score == 100 - ra.risk_score
               + (IF m.monthly_rent >= Dollars(2500) THEN 10 ELSE 0)
               + (IF m.lease_duration_months >= 12 THEN 5 ELSE 0)
    IN  IF score >= 80 THEN "highly_attractive"
        ELSE IF score >= 60 THEN "attractive"
        ELSE IF score >= 40 THEN "moderate"
        ELSE "unattractive"

\* _calculate_portfolio_fit: min(85, max(15, 50 + monthly_rent / 100)), in
\* ten-thousandths (monthly_rent in cents is monthly_rent / 100 in that unit)
PortfolioFit(m) ==
    LET v == 500000 + m.monthly_rent
        low == IF v > 150000 THEN v ELSE 150000
    IN  IF low < 850000 THEN low ELSE 850000

\* _generate_portfolio_insights
GeneratePortfolioInsights(m, ra) ==
    [property_classification |-> ClassifyProperty(m),
     retention_probability |-> RetentionProbability(m, ra),
     revenue_optimization_potential |-> RevenuePotential(m),
     operational_efficiency_score |-> OperationalEfficiency(ra),
     investment_attractiveness |-> InvestmentAttractiveness(m, ra),
     portfolio_fit_score |-> PortfolioFit(m)]

BelowMarketRent(m) == m.monthly_rent < Dollars(2600)

\* lines 690-691: monthly_rent < market_rent * 0.95, which is 2470
BelowMarket(m) == m.monthly_rent < Dollars(2470)

\* _identify_revenue_opportunities; market_rent * 0.95 is 2470
IdentifyRevenueOpportunities(m, t) ==
    (IF BelowMarket(m)
     THEN <<[type |-> "rent_optimization",
             description |-> "Below-market rent pricing",
             annual_impact |-> (Dollars(2600) - m.monthly_rent) * 12,
             implementation_effort |-> "low", timeline |-> "30-60 days"]>>
     ELSE <<>>)
    \o (IF "parking" \in t.phrases /\ "fee" \notin t.phrases
        THEN <<[type |-> "parking_monetization",
                description |-> "Unmonetized parking spaces",
                annual_impact |-> Dollars(600),
                implementation_effort |-> "medium", timeline |-> "60-90 days"]>>
        ELSE <<>>)
    \o (IF m.utility_costs = 0 /\ "tenant pays utilities" \notin t.phrases
        THEN <<[type |-> "utility_recovery",
                description |-> "Implement utility cost recovery",
                annual_impact |-> Dollars(1200),
                implementation_effort |-> "high", timeline |-> "90-120 days"]>>
        ELSE <<>>)

discriminatory_language ==
    <<"no children", "adults only", "mature individuals preferred",
      "quiet tenants only", "professional tenants">>

required_disclosures == <<"lead paint", "mold", "asbestos", "crime statistics">>

\* the entries of a list that are (present = TRUE) or are not in the text
RECURSIVE Listed(_, _, _, _)
Listed(t, list, present, i) ==
    IF i > Len(list) THEN <<>>
    ELSE (IF (list[i] \in t.phrases) = present THEN <<list[i]>> ELSE <<>>)
         \o Listed(t, list, present, i + 1)

Unfloored(score) == score

\* line 764: max(compliance_score, 0)
FlooredScore(score) == IF score > 0 THEN score ELSE 0

\* _analyze_compliance
AnalyzeCompliance(t) ==
    LET found == Listed(t, discriminatory_language, TRUE, 1)
        nonrefundable == "non-refundable deposit" \in t.phrases
        missing == Listed(t, required_disclosures, FALSE, 1)
        score == 100 - 25 * Len(found)
                     - (IF nonrefundable THEN 15 ELSE 0)
                     - 5 * Len(missing)
    IN  [compliance_score |-> FlooredScore(score),
         violations |->
             [i \in 1..Len(found) |->
                 <<"Potentially discriminatory language", found[i]>>]
             \o (IF nonrefundable
                 THEN <<<<"Non-refundable deposits may violate local regulations">>>>
                 ELSE <<>>)
             \o (IF missing # <<>>
                 THEN <<<<"Missing required disclosures", missing>>>>
                 ELSE <<>>),
         recommendations |->
             [i \in 1..Len(found) |->
                 "Remove discriminatory language and ensure fair housing compliance"]
             \o (IF nonrefundable
                 THEN <<"Review local security deposit laws">> ELSE <<>>)
             \o (IF missing # <<>>
                 THEN <<"Add all required property disclosures">> ELSE <<>>),
         risk_level |-> IF score < 70 THEN "high"
                        ELSE IF score < 85 THEN "medium" ELSE "low"]

key_terms == {"rent", "deposit", "tenant", "landlord", "term"}

ConfidenceScoreUncapped(t) ==
    50 + (IF t.length > 10000 THEN 20 ELSE IF t.length > 5000 THEN 10 ELSE 0)
       + (IF "lease agreement" \in t.phrases THEN 15 ELSE 0)
       + 3 * Cardinality(key_terms \cap t.phrases)

\* _calculate_confidence_score
ConfidenceScore(t) ==
    LET score == 50
               + (IF t.length > 10000 THEN 20
                  ELSE IF t.length > 5000 THEN 10 ELSE 0)
               + (IF "lease agreement" \in t.phrases THEN 15 ELSE 0)
               + 3 * Cardinality(key_terms \cap t.phrases)
    IN  IF score < 95 THEN score ELSE 95

----------------------------------------------------------------------------
(* analyze_document *)

\* the text of '', which extraction_data.get('data', {}).get('full_text', '')
\* gives for a record without 'data' or without 'full_text'
EmptyText == TextOf(0, {}, NoInstances)

FullText(d) ==
    IF d.has_data /\ d.has_full_text THEN d.full_text ELSE EmptyText

\* lines 240-243: the text is read and the extractor entered
AnalyzeStart ==
    /\ pc = "start"
    /\ text' = FullText(doc)
    /\ StartExtract
    /\ pc' = "extract"
    /\ UNCHANGED <<doc, raised, rebuilt, raw_score, risk, analysis, others>>

\* the divisions lines 246-268 carry out
Quotients(m) ==
    {SecurityDepositRatio(m), CostEfficiency(m)}

\* lines 246-268: the analyses made of the record and the text, and the result
AnalyzeRest ==
    /\ pc = "extracted"
    /\ LET ra == AssessRisks(text, metrics)
       IN  /\ raw_score' = RiskLocals(text, metrics).risk_score
           /\ risk' = ra
           /\ IF \E q \in Quotients(metrics) : q.den = 0
              THEN /\ raised' = "ZeroDivisionError"
                   /\ pc' = "raised"
                   /\ UNCHANGED analysis
              ELSE /\ analysis' =
                          [business_metrics |-> metrics,
                           risk_assessment |-> ra,
                           market_analysis |-> AnalyzeMarketPosition(metrics),
                           portfolio_insights |->
                               GeneratePortfolioInsights(metrics, ra),
                           revenue_opportunities |->
                               IdentifyRevenueOpportunities(metrics, text),
                           compliance_report |-> AnalyzeCompliance(text),
                           confidence_score |-> ConfidenceScore(text)]
                   /\ pc' = "done"
                   /\ UNCHANGED raised
    /\ UNCHANGED <<doc, text, kind, pat, tried, extracted, metrics,
                   confidence_scores, rebuilt, others>>

\* the captures of the documents of the model
DocCaptures ==
    [k \in {Kinds[i] : i \in 1..Len(Kinds)} |->
        CASE k = "rent" -> {<<"2", ",", "4", "0", "7", ".", "0", "0">>}
          [] k = "security_deposit" -> {<<"2", ",", "9", "0", "7", ".", "0", "0">>}
          [] k = "lease_term" -> {<<"1", "2">>}
          [] k = "pet_fee" -> {<<"2", "5">>}
          [] k = "parking_fee" -> {<<"5", "0">>}
          [] OTHER -> {}]

DocPhrases == key_terms \cup {"lease agreement", "tenant pays utilities"}

DocTexts ==
    {EmptyText} \cup
    {TextOf(n, P, NoInstances) : n \in {120, 5000, 5001, 10000, 10001},
                                 P \in SUBSET DocPhrases}

\* extraction_data: without 'data', with a 'data' without 'full_text', with a text
Docs ==
    {[has_data |-> FALSE, has_full_text |-> FALSE, full_text |-> EmptyText],
     [has_data |-> TRUE, has_full_text |-> FALSE, full_text |-> EmptyText]}
    \cup {[has_data |-> TRUE, has_full_text |-> TRUE, full_text |-> t] :
             t \in DocTexts}

InitDoc ==
    /\ doc \in Docs
    /\ pc = "start"
    /\ text = EmptyText
    /\ metrics = BusinessMetrics
    /\ confidence_scores = <<>>
    /\ kind = 1
    /\ pat = 1
    /\ tried = <<>>
    /\ extracted = {}
    /\ raised = "none"
    /\ rebuilt = NoRecord
    /\ raw_score = 0
    /\ risk = NoRecord
    /\ analysis = NoRecord
    /\ OthersIdle

NextDoc ==
    \/ AnalyzeStart
    \/ TryPattern(DocCaptures)
    \/ EndLoop
    \/ AnalyzeRest

SpecDoc == InitDoc /\ [][NextDoc]_vars

----------------------------------------------------------------------------
(* A method of the engine called on its own *)

\* the variables of the extractor, the scorer and analyze_document at rest
CallInit ==
    /\ pc = "call"
    /\ confidence_scores = <<>>
    /\ kind = 1
    /\ pat = 1
    /\ tried = <<>>
    /\ extracted = {}
    /\ raised = "none"
    /\ rebuilt = NoRecord
    /\ raw_score = 0
    /\ risk = NoRecord
    /\ doc = NoDoc
    /\ analysis = NoRecord
    /\ returned = NoRecord
    /\ portfolio = NoRecord
    /\ engine = NoRecord
    /\ calls = <<>>

\* the matches of the compliance patterns that the phrases P bring
InstancesOf(P) == [c \in Categories |-> Cardinality(Triggers(c) \cap P)]

CompliancePhrases ==
    {discriminatory_language[i] : i \in 1..Len(discriminatory_language)}
    \cup {required_disclosures[i] : i \in 1..Len(required_disclosures)}
    \cup {"non-refundable deposit"}

ComplianceTexts ==
    {TextOf(120, P, InstancesOf(P)) : P \in SUBSET CompliancePhrases}

InitCompliance ==
    /\ text \in ComplianceTexts
    /\ metrics = BusinessMetrics
    /\ CallInit

\* the call of _analyze_compliance(text)
AnalyzeComplianceCall ==
    /\ pc = "call"
    /\ returned' = AnalyzeCompliance(text)
    /\ pc' = "returned"
    /\ UNCHANGED <<text, kind, pat, tried, extracted, metrics, confidence_scores,
                   raised, rebuilt, raw_score, risk, doc, analysis, portfolio,
                   engine, calls>>

NextCompliance == AnalyzeComplianceCall

SpecCompliance == InitCompliance /\ [][NextCompliance]_vars

\* a record with a rent, a deposit, a pet fee, a parking fee, a notice
\* period and a termination penalty
CostMetricsOf(rent, deposit, pet, parking, notice, penalty) ==
    Derive([BusinessMetrics EXCEPT
               !.monthly_rent = Dollars(rent),
               !.security_deposit = Dollars(deposit),
               !.pet_fees = Dollars(pet),
               !.parking_fee = Dollars(parking),
               !.notice_period_days = notice,
               !.early_termination_penalty = Dollars(penalty)])

\* both sides of every test of _calculate_cost_efficiency
CostMetrics ==
    {CostMetricsOf(r, d, f, k, n, p) :
        r \in {0, 1000}, d \in {0, 100, 400, 2000}, f \in {0, 50, 51},
        k \in {0, 50}, n \in {0, 30, 31}, p \in {0, 1000, 1001}}

InitCost ==
    /\ text = TextOf(0, {}, NoInstances)
    /\ metrics \in CostMetrics
    /\ CallInit

\* the call of _calculate_cost_efficiency(metrics)
CostEfficiencyCall ==
    /\ pc = "call"
    /\ LET score == CostEfficiency(metrics)
       IN  IF score.den = 0
           THEN /\ raised' = "ZeroDivisionError"
                /\ pc' = "raised"
                /\ UNCHANGED returned
           ELSE /\ returned' = score
                /\ pc' = "returned"
                /\ UNCHANGED raised
    /\ UNCHANGED <<text, kind, pat, tried, extracted, metrics, confidence_scores,
                   rebuilt, raw_score, risk, doc, analysis, portfolio, engine,
                   calls>>

NextCost == CostEfficiencyCall

SpecCost == InitCost /\ [][NextCost]_vars

----------------------------------------------------------------------------
(* analyze_document as a function of a document whose matches are known *)

\* a text together with the first match of every pattern: first[k][p] is
\* matches[0] of pattern p of kind k, or NoMatch
Scanned(t, first) ==
    [length |-> t.length, phrases |-> t.phrases, instances |-> t.instances,
     first |-> first]

NothingFound == [k \in DOMAIN patterns |-> [p \in 1..patterns[k] |-> NoMatch]]

\* the first match of pattern p of kind k; the empty text matches nothing
FirstMatch(t, k, p) == IF t.length = 0 THEN NoMatch ELSE t.first[k][p]

\* the loop of kind k from its pattern p on, on the locals st
RECURSIVE RunLoop(_, _, _, _)
RunLoop(t, k, p, st) ==
    IF p > patterns[k] \/ st.raised # "none" THEN st
    ELSE LET c == FirstMatch(t, k, p)
             r == ParseCapture(k, c)
         IN  IF c = NoMatch THEN RunLoop(t, k, p + 1, st)
             ELSE IF ~r.ok
             THEN IF r.error \in ExceptClause
                  THEN RunLoop(t, k, p + 1, st)
                  ELSE [st EXCEPT !.raised = r.error]
             ELSE IF InRange(k, r.value)
             THEN RunLoop(t, k, Break(k, p),
                          [st EXCEPT !.metrics[FieldOf[k]] = r.value,
                                     !.confidence_scores = @ \o AcceptWeight[k],
                                     !.extracted = @ \cup {k}])
             ELSE RunLoop(t, k, p + 1, st)

\* `if not ..._extracted: confidence_scores.append(0.0)` after the loop of kind k
AfterLoop(k, st) ==
    IF k \in st.extracted THEN st
    ELSE [st EXCEPT !.confidence_scores = @ \o MissWeight(k)]

\* the loops of the kinds i.. in turn
RECURSIVE RunKinds(_, _, _)
RunKinds(t, i, st) ==
    IF i > Len(Kinds) \/ st.raised # "none" THEN st
    ELSE RunKinds(t, i + 1, AfterLoop(Kinds[i], RunLoop(t, Kinds[i], 1, st)))

\* _extract_business_metrics(text): the record, and what it raised
ExtractBusinessMetrics(t) ==
    LET st == RunKinds(t, 1, [metrics |-> BusinessMetrics,
                              confidence_scores |-> <<>>,
                              extracted |-> {}, raised |-> "none"])
    IN  [metrics |-> FinishExtract(st.metrics, st.confidence_scores),
         raised |-> st.raised]

\* analyze_document(extraction_data): the dictionary without its timestamp,
\* and what the call raised
AnalyzeDocument(d) ==
    LET t == FullText(d)
        e == ExtractBusinessMetrics(t)
        m == e.metrics
        ra == AssessRisks(t, m)
    IN  [raised |-> IF e.raised # "none" THEN e.raised
                    ELSE IF \E q \in Quotients(m) : q.den = 0
                    THEN "ZeroDivisionError" ELSE "none",
         analysis |->
             [business_metrics |-> m,
              risk_assessment |-> ra,
              market_analysis |-> AnalyzeMarketPosition(m),
              portfolio_insights |-> GeneratePortfolioInsights(m, ra),
              revenue_opportunities |-> IdentifyRevenueOpportunities(m, t),
              compliance_report |-> AnalyzeCompliance(t),
              confidence_score |-> ConfidenceScore(t)]]

----------------------------------------------------------------------------
(* PortfolioAnalyzer *)

RECURSIVE SumSeq(_)
SumSeq(q) == IF q = <<>> THEN 0 ELSE Head(q) + SumSeq(Tail(q))

\* the mean of a list that is not empty
MeanOf(q) == Div(SumSeq(q), Len(q))

\* the locals of analyze_portfolio before its loop (lines 931-934)
PortfolioStart(documents) ==
    [lease_documents |-> documents,
     portfolio_metrics |-> <<>>,
     total_revenue |-> 0,
     total_risk_exposure |-> 0,
     risk_distribution |-> [low |-> 0, medium |-> 0, high |-> 0, critical |-> 0],
     result |-> NoRecord]

NextDocumentFromEnd(p) ==
    p.lease_documents[Len(p.lease_documents) - Len(p.portfolio_metrics)]

\* `for doc in lease_documents`: the document of the next iteration
NextDocument(p) == p.lease_documents[Len(p.portfolio_metrics) + 1]

LeaseValueOfOneMonth(a) == Derive(a.business_metrics).total_monthly_cost

\* lines 940-941: the total_lease_value of the record built again
LeaseValueOf(a) == Derive(a.business_metrics).total_lease_value

PortfolioIterationCountsLow(p, a) ==
    [p EXCEPT
        !.portfolio_metrics = Append(@, a),
        !.total_revenue = @ + LeaseValueOf(a),
        !.total_risk_exposure = @ + a.risk_assessment.financial_exposure,
        !.risk_distribution["low"] = @ + 1]

\* lines 936-946: one iteration of the loop on the analysis a of its document
PortfolioIteration(p, a) ==
    [p EXCEPT
        !.portfolio_metrics = Append(@, a),
        !.total_revenue = @ + LeaseValueOf(a),
        !.total_risk_exposure = @ + a.risk_assessment.financial_exposure,
        !.risk_distribution[a.risk_assessment.risk_level] = @ + 1]

PortfolioRiskUnguarded(analyses) ==
    Div(SumSeq([i \in 1..Len(analyses) |-> analyses[i].risk_assessment.risk_score]),
        Len(analyses))

\* _calculate_portfolio_risk
PortfolioRisk(analyses) ==
    IF analyses = <<>> THEN Whole(0)
    ELSE MeanOf([i \in 1..Len(analyses) |->
                    analyses[i].risk_assessment.risk_score])

\* _identify_portfolio_opportunities
IdentifyPortfolioOpportunities(analyses) ==
    LET total_revenue_potential ==
            SumSeq([i \in 1..Len(analyses) |->
                SumSeq([j \in 1..Len(analyses[i].revenue_opportunities) |->
                    analyses[i].revenue_opportunities[j].annual_impact])])
        high_risk_properties ==
            Cardinality({i \in 1..Len(analyses) :
                analyses[i].risk_assessment.risk_level \in {"high", "critical"}})
    IN  (IF total_revenue_potential > Dollars(50000)
         THEN <<[type |-> "revenue_optimization",
                 description |-> "Portfolio-wide revenue optimization",
                 potential_impact |-> total_revenue_potential,
                 priority |-> "high"]>>
         ELSE <<>>)
        \o (IF 10 * high_risk_properties > 3 * Len(analyses)
            THEN <<[type |-> "risk_mitigation",
                    description |-> "Address high-risk properties",
                    affected_properties |-> high_risk_properties,
                    priority |-> "critical"]>>
            ELSE <<>>)

\* two violation strings are the same string
SameViolation(a, b) ==
    /\ Len(a) = Len(b)
    /\ a[1] = b[1]
    /\ Len(a) = 1 \/ a[2] = b[2]

\* common_issues after one more violation: its count, in insertion order
CountIssue(issues, v) ==
    IF \E i \in 1..Len(issues) : SameViolation(issues[i].violation, v)
    THEN [i \in 1..Len(issues) |->
             IF SameViolation(issues[i].violation, v)
             THEN [issues[i] EXCEPT !.count = @ + 1] ELSE issues[i]]
    ELSE Append(issues, [violation |-> v, count |-> 1])

RECURSIVE CountIssues(_, _)
CountIssues(issues, violations) ==
    IF violations = <<>> THEN issues
    ELSE CountIssues(CountIssue(issues, Head(violations)), Tail(violations))

RECURSIVE CommonIssues(_, _, _)
CommonIssues(issues, analyses, i) ==
    IF i > Len(analyses) THEN issues
    ELSE CommonIssues(CountIssues(issues, analyses[i].compliance_report.violations),
                      analyses, i + 1)

\* _summarize_portfolio_compliance
SummarizePortfolioCompliance(analyses) ==
    [total_violations |->
         SumSeq([i \in 1..Len(analyses) |->
                    Len(analyses[i].compliance_report.violations)]),
     avg_compliance_score |->
         IF analyses # <<>>
         THEN MeanOf([i \in 1..Len(analyses) |->
                         analyses[i].compliance_report.compliance_score])
         ELSE Whole(0),
     common_issues |-> CommonIssues(<<>>, analyses, 1),
     properties_at_risk |->
         Cardinality({i \in 1..Len(analyses) :
                         analyses[i].compliance_report.compliance_score < 70})]

\* _calculate_portfolio_benchmarks: {} for no analyses
PortfolioBenchmarks(analyses) ==
    IF analyses = <<>> THEN <<>>
    ELSE LET n == 1..Len(analyses)
         IN  [avg_monthly_rent |->
                  MeanOf([i \in n |-> analyses[i].business_metrics.monthly_rent]),
              avg_security_deposit |->
                  MeanOf([i \in n |-> analyses[i].business_metrics.security_deposit]),
              avg_lease_value |->
                  MeanOf([i \in n |-> analyses[i].business_metrics.total_lease_value]),
              avg_risk_score |->
                  MeanOf([i \in n |-> analyses[i].risk_assessment.risk_score]),
              portfolio_efficiency |->
                  MeanOf([i \in n |->
                      analyses[i].portfolio_insights.operational_efficiency_score])]

\* opp.get('potential_impact', 0)
PotentialImpact(opp) ==
    IF "potential_impact" \in DOMAIN opp THEN opp.potential_impact ELSE 0

RECURSIVE InsertByImpactAscending(_, _)
InsertByImpactAscending(sorted, x) ==
    IF sorted = <<>> THEN <<x>>
    ELSE IF PotentialImpact(Head(sorted)) <= PotentialImpact(x)
    THEN <<Head(sorted)>> \o InsertByImpactAscending(Tail(sorted), x)
    ELSE <<x>> \o sorted

\* sorted(..., key=potential_impact, reverse=True): x goes behind every entry
\* that is not smaller, so equal entries keep their order
RECURSIVE InsertByImpact(_, _)
InsertByImpact(sorted, x) ==
    IF sorted = <<>> THEN <<x>>
    ELSE IF PotentialImpact(Head(sorted)) >= PotentialImpact(x)
    THEN <<Head(sorted)>> \o InsertByImpact(Tail(sorted), x)
    ELSE <<x>> \o sorted

RECURSIVE SortedByImpact(_)
SortedByImpact(opps) ==
    IF opps = <<>> THEN <<>>
    ELSE InsertByImpact(SortedByImpact(SubSeq(opps, 1, Len(opps) - 1)),
                        opps[Len(opps)])

\* f"${x:,.0f}" of an amount in cents: the whole dollars the string shows,
\* the half rounded to the even dollar
FormatDollars(cents) ==
    LET q == cents \div 100
        r == cents % 100
    IN  IF r < 50 THEN q
        ELSE IF r > 50 THEN q + 1
        ELSE IF q % 2 = 0 THEN q ELSE q + 1

RiskAssessmentLabelInclusive(score) ==
    IF score.num >= 70 * score.den THEN "high"
    ELSE IF score.num >= 50 * score.den THEN "medium" ELSE "low"

\* lines 1053-1057: the label of the portfolio risk score
RiskAssessmentLabel(score) ==
    IF score.num > 70 * score.den THEN "high"
    ELSE IF score.num > 50 * score.den THEN "medium" ELSE "low"

\* _generate_executive_summary
GenerateExecutiveSummary(insights) ==
    LET score == insights.portfolio_risk_score
        opps == insights.optimization_opportunities
        top == SortedByImpact(opps)
    IN  [portfolio_size |-> insights.total_properties,
         annual_revenue |-> FormatDollars(insights.total_annual_revenue),
         risk_assessment |-> RiskAssessmentLabel(score),
         optimization_potential |->
             FormatDollars(SumSeq([i \in 1..Len(opps) |-> PotentialImpact(opps[i])])),
         key_recommendations |->
             [i \in 1..(IF Len(top) < 3 THEN Len(top) ELSE 3) |-> top[i].description],
         immediate_actions_required |->
             insights.compliance_summary.properties_at_risk]

\* lines 949-963: the insights and the dictionary analyze_portfolio returns
PortfolioResult(p) ==
    LET insights ==
            [total_properties |-> Len(p.lease_documents),
             total_annual_revenue |-> p.total_revenue,
             total_risk_exposure |-> p.total_risk_exposure,
             risk_distribution |-> p.risk_distribution,
             portfolio_risk_score |-> PortfolioRisk(p.portfolio_metrics),
             optimization_opportunities |->
                 IdentifyPortfolioOpportunities(p.portfolio_metrics),
             compliance_summary |->
                 SummarizePortfolioCompliance(p.portfolio_metrics),
             performance_benchmarks |-> PortfolioBenchmarks(p.portfolio_metrics)]
    IN  [individual_analyses |-> p.portfolio_metrics,
         portfolio_insights |-> insights,
         executive_summary |-> GenerateExecutiveSummary(insights)]

\* the divisions lines 949-963 carry out
PortfolioQuotients(p) ==
    {PortfolioRisk(p.portfolio_metrics),
     SummarizePortfolioCompliance(p.portfolio_metrics).avg_compliance_score}

\* lines 936-946: the next document is analysed and added to the totals
PortfolioAnalyze ==
    /\ pc = "loop"
    /\ Len(portfolio.portfolio_metrics) < Len(portfolio.lease_documents)
    /\ LET d == NextDocument(portfolio)
           r == AnalyzeDocument(d)
       IN  /\ doc' = d
           /\ IF r.raised # "none"
              THEN /\ raised' = r.raised
                   /\ pc' = "raised"
                   /\ UNCHANGED <<analysis, rebuilt, portfolio>>
              ELSE /\ analysis' = r.analysis
                   /\ rebuilt' = Derive(r.analysis.business_metrics)
                   /\ portfolio' = PortfolioIteration(portfolio, r.analysis)
                   /\ UNCHANGED <<pc, raised>>
    /\ UNCHANGED <<text, kind, pat, tried, extracted, metrics, confidence_scores,
                   raw_score, risk, returned, engine, calls>>

\* lines 949-963, after the last document
PortfolioReturn ==
    /\ pc = "loop"
    /\ Len(portfolio.portfolio_metrics) = Len(portfolio.lease_documents)
    /\ IF \E q \in PortfolioQuotients(portfolio) : q.den = 0
       THEN /\ raised' = "ZeroDivisionError"
            /\ pc' = "raised"
            /\ UNCHANGED portfolio
       ELSE /\ portfolio' = [portfolio EXCEPT !.result = PortfolioResult(portfolio)]
            /\ pc' = "summarised"
            /\ UNCHANGED raised
    /\ UNCHANGED <<text, kind, pat, tried, extracted, metrics, confidence_scores,
                   rebuilt, raw_score, risk, doc, analysis, returned, engine, calls>>

\* a string of the model as the list of its characters
Chars(str) ==
    CASE str = "50" -> <<"5", "0">>
      [] str = "90" -> <<"9", "0">>
      [] str = "12" -> <<"1", "2">>
      [] str = "1,000" -> <<"1", ",", "0", "0", "0">>
      [] str = "2,500" -> <<"2", ",", "5", "0", "0">>
      [] str = "2,407.00" -> <<"2", ",", "4", "0", "7", ".", "0", "0">>
      [] str = "2,907.00" -> <<"2", ",", "9", "0", "7", ".", "0", "0">>

\* a document whose text has the length n, the phrases P, the compliance
\* matches inst and the first matches first
Document(n, P, inst, first) ==
    [has_data |-> TRUE, has_full_text |-> TRUE,
     full_text |-> Scanned(TextOf(n, P, inst), first)]

\* a record without 'data'
NoDataDocument ==
    [has_data |-> FALSE, has_full_text |-> FALSE, full_text |-> EmptyText]

\* a notice of 90 days and nothing else: 10 points, low
LowDocument ==
    Document(120, {}, NoInstances,
             [NothingFound EXCEPT !["notice_period"][1] = Chars("90")])

\* six phrases of 10, 12, 12, 8, 8 and 10 points: 60 points, high
HighDocument ==
    Document(6000, {"immediate eviction", "forfeit all rights", "waive all claims",
                    "hold harmless", "landlord not responsible",
                    "tenant assumes all risk"},
             NoInstances, NothingFound)

\* a rent of 1,000 found by the second pattern after a first match of 50, a
\* deposit and a termination fee of 2,500, a notice of 90 days: 37 points
MediumDocument ==
    Document(120, {"rent", "deposit", "parking"}, NoInstances,
             [NothingFound EXCEPT !["rent"][1] = Chars("50"),
                                  !["rent"][2] = Chars("1,000"),
                                  !["security_deposit"][1] = Chars("2,500"),
                                  !["termination_fee"][2] = Chars("2,500"),
                                  !["notice_period"][1] = Chars("90")])

\* every compliance category (55 points) and five phrases of 6, 15, 12, 12
\* and 12 points: 112 points, critical
CriticalDocument ==
    Document(12000, {"no children", "non-refundable deposit", "no warranty",
                     "waiver of habitability", "no repairs by landlord",
                     "forfeit all rights", "waive all claims", "lease agreement"},
             [discrimination |-> 1, illegal_fees |-> 1, habitability |-> 1],
             NothingFound)

\* a rent, a deposit and a term of 12 months, every disclosure: no points
CleanDocument ==
    Document(120, {"rent", "deposit", "term", "lead paint", "mold", "asbestos",
                   "crime statistics", "tenant pays utilities"},
             NoInstances,
             [NothingFound EXCEPT !["rent"][1] = Chars("2,407.00"),
                                  !["security_deposit"][1] = Chars("2,907.00"),
                                  !["lease_term"][1] = Chars("12")])

PortfolioDocuments ==
    {NoDataDocument, LowDocument, HighDocument, MediumDocument,
     CriticalDocument, CleanDocument}

InitPortfolio ==
    /\ \E documents \in SeqsUpTo(PortfolioDocuments, MaxDocs) :
           portfolio = PortfolioStart(documents)
    /\ pc = "loop"
    /\ text = EmptyText
    /\ metrics = BusinessMetrics
    /\ confidence_scores = <<>>
    /\ kind = 1
    /\ pat = 1
    /\ tried = <<>>
    /\ extracted = {}
    /\ raised = "none"
    /\ rebuilt = NoRecord
    /\ raw_score = 0
    /\ risk = NoRecord
    /\ doc = NoDoc
    /\ analysis = NoRecord
    /\ returned = NoRecord
    /\ engine = NoRecord
    /\ calls = <<>>

NextPortfolio == PortfolioAnalyze \/ PortfolioReturn

SpecPortfolio == InitPortfolio /\ [][NextPortfolio]_vars

----------------------------------------------------------------------------
(* analyze_document calls on one shared engine, step by step *)

\* self.patterns and self.compliance_patterns, all a LeaseAnalysisEngine holds
EngineTables ==
    [patterns |-> patterns, compliance_patterns |-> compliance_patterns]

\* the locals of a call on the document d before its first statement
Frame(d) ==
    [doc |-> d, pc |-> "extract", metrics |-> NoRecord,
     risk_assessment |-> NoRecord, market_analysis |-> NoRecord,
     portfolio_insights |-> NoRecord, revenue_opportunities |-> NoRecord,
     compliance_report |-> NoRecord, result |-> NoRecord]

OneRecordForAll(c) == 1

\* line 282, `metrics = BusinessMetrics()`: the record of call c is an object
\* of its own, held by its frame
OwnRecord(c) == c

\* the record the call c works on
MetricsIn(c) == calls[OwnRecord(c)].metrics

\* the variables no step of a call touches
CallUnchanged ==
    UNCHANGED <<text, pc, kind, pat, tried, extracted, metrics, confidence_scores,
                raised, rebuilt, raw_score, risk, doc, analysis, returned,
                portfolio, engine>>

\* line 243: metrics = self._extract_business_metrics(full_text)
CallExtract(c) ==
    /\ calls[c].pc = "extract"
    /\ engine = EngineTables
    /\ LET e == ExtractBusinessMetrics(FullText(calls[c].doc))
       IN  calls' = IF e.raised # "none"
                    THEN [calls EXCEPT ![c].pc = "raised"]
                    ELSE [calls EXCEPT ![OwnRecord(c)].metrics = e.metrics,
                                       ![c].pc = "assess"]
    /\ CallUnchanged

\* line 246: risk_assessment = self._assess_risks(full_text, metrics)
CallAssess(c) ==
    /\ calls[c].pc = "assess"
    /\ engine = EngineTables
    /\ calls' = [calls EXCEPT
                    ![c].risk_assessment =
                        AssessRisks(FullText(calls[c].doc), MetricsIn(c)),
                    ![c].pc = "market"]
    /\ CallUnchanged

\* line 249: market_analysis = self._analyze_market_position(metrics)
CallMarket(c) ==
    /\ calls[c].pc = "market"
    /\ calls' = IF \E q \in Quotients(MetricsIn(c)) : q.den = 0
                THEN [calls EXCEPT ![c].pc = "raised"]
                ELSE [calls EXCEPT
                         ![c].market_analysis = AnalyzeMarketPosition(MetricsIn(c)),
                         ![c].pc = "insights"]
    /\ CallUnchanged

\* line 252: portfolio_insights = self._generate_portfolio_insights(...)
CallInsights(c) ==
    /\ calls[c].pc = "insights"
    /\ calls' = [calls EXCEPT
                    ![c].portfolio_insights =
                        GeneratePortfolioInsights(MetricsIn(c),
                                                  calls[c].risk_assessment),
                    ![c].pc = "opportunities"]
    /\ CallUnchanged

\* line 255: revenue_opportunities = self._identify_revenue_opportunities(...)
CallOpportunities(c) ==
    /\ calls[c].pc = "opportunities"
    /\ calls' = [calls EXCEPT
                    ![c].revenue_opportunities =
                        IdentifyRevenueOpportunities(MetricsIn(c),
                                                     FullText(calls[c].doc)),
                    ![c].pc = "compliance"]
    /\ CallUnchanged

\* line 258: compliance_report = self._analyze_compliance(full_text)
CallCompliance(c) ==
    /\ calls[c].pc = "compliance"
    /\ calls' = [calls EXCEPT
                    ![c].compliance_report =
                        AnalyzeCompliance(FullText(calls[c].doc)),
                    ![c].pc = "return"]
    /\ CallUnchanged

\* lines 260-269: the dictionary, of the record and the values of the frame
CallReturn(c) ==
    /\ calls[c].pc = "return"
    /\ calls' = [calls EXCEPT
                    ![c].result =
                        [business_metrics |-> MetricsIn(c),
                         risk_assessment |-> calls[c].risk_assessment,
                         market_analysis |-> calls[c].market_analysis,
                         portfolio_insights |-> calls[c].portfolio_insights,
                         revenue_opportunities |-> calls[c].revenue_opportunities,
                         compliance_report |-> calls[c].compliance_report,
                         confidence_score |->
                             ConfidenceScore(FullText(calls[c].doc))],
                    ![c].pc = "returned"]
    /\ CallUnchanged

SharedDocuments ==
    {NoDataDocument, MediumDocument, CriticalDocument, CleanDocument}

InitShared ==
    /\ \E documents \in [1..MaxCalls -> SharedDocuments] :
           calls = [c \in 1..MaxCalls |-> Frame(documents[c])]
    /\ engine = EngineTables
    /\ pc = "calls"
    /\ text = EmptyText
    /\ metrics = BusinessMetrics
    /\ confidence_scores = <<>>
    /\ kind = 1
    /\ pat = 1
    /\ tried = <<>>
    /\ extracted = {}
    /\ raised = "none"
    /\ rebuilt = NoRecord
    /\ raw_score = 0
    /\ risk = NoRecord
    /\ doc = NoDoc
    /\ analysis = NoRecord
    /\ returned = NoRecord
    /\ portfolio = NoRecord

NextShared ==
    \E c \in 1..MaxCalls :
        \/ CallExtract(c)
        \/ CallAssess(c)
        \/ CallMarket(c)
        \/ CallInsights(c)
        \/ CallOpportunities(c)
        \/ CallCompliance(c)
        \/ CallReturn(c)

SpecShared == InitShared /\ [][NextShared]_vars

----------------------------------------------------------------------------
(* _identify_revenue_opportunities called on its own *)

\* rents, in cents, on both sides of 95% of the market rent and of the
\* market rent, with and without utility costs
OpportunityMetrics ==
    {Derive([BusinessMetrics EXCEPT !.monthly_rent = r, !.utility_costs = u]) :
        r \in {0, 246999, 247000, 250000, 260000, 300000}, u \in {0, 10000}}

OpportunityTexts ==
    {TextOf(120, P, NoInstances) :
        P \in SUBSET {"parking", "fee", "tenant pays utilities"}}

InitOpportunities ==
    /\ text \in OpportunityTexts
    /\ metrics \in OpportunityMetrics
    /\ CallInit

\* the call of _identify_revenue_opportunities(metrics, text)
IdentifyRevenueOpportunitiesCall ==
    /\ pc = "call"
    /\ returned' = IdentifyRevenueOpportunities(metrics, text)
    /\ pc' = "returned"
    /\ UNCHANGED <<text, kind, pat, tried, extracted, metrics, confidence_scores,
                   raised, rebuilt, raw_score, risk, doc, analysis, portfolio,
                   engine, calls>>

NextOpportunities == IdentifyRevenueOpportunitiesCall

SpecOpportunities == InitOpportunities /\ [][NextOpportunities]_vars

----------------------------------------------------------------------------
(* The normalization of the text, lines 286-287, character by character *)

\* the characters that \s matches, among those of the model
IsSpace(c) == c \in {" ", "\t"}

\* str.lower on one character
LowerChar(c) == IF c = "A" THEN "a" ELSE c

Lower(s) == [i \in 1..Len(s) |-> LowerChar(s[i])]

\* the first place after i that holds no whitespace, Len(s) + 1 without one:
\* the place where the greedy \s+ started after i stops
RECURSIVE SkipSpaces(_, _)
SkipSpaces(s, i) ==
    IF i + 1 <= Len(s) /\ IsSpace(s[i + 1]) THEN SkipSpaces(s, i + 1) ELSE i + 1

\* (\d)\s+(\d) matches at i and ends at the digit it returns, 0 for no match
MatchAt(s, i) ==
    LET j == SkipSpaces(s, i)
    IN  IF IsDigit(s[i]) /\ j > i + 1 /\ j <= Len(s) /\ IsDigit(s[j])
        THEN j ELSE 0

\* re.sub(r'(\d)\s+(\d)', r'\1\2', s) from i on: the matches are taken from
\* left to right and do not overlap, the scan goes on behind a match
RECURSIVE SubFrom(_, _)
SubFrom(s, i) ==
    IF i > Len(s) THEN <<>>
    ELSE IF MatchAt(s, i) # 0
    THEN <<s[i], s[MatchAt(s, i)]>> \o SubFrom(s, MatchAt(s, i) + 1)
    ELSE <<s[i]>> \o SubFrom(s, i + 1)

\* line 286
TextCleaned(s) == SubFrom(s, 1)

\* line 287
TextLower(s) == Lower(TextCleaned(s))

NormalizeChars == {"1", "2", "3", " ", "\t", "A"}

NormalizeTexts == SeqsUpTo(NormalizeChars, MaxChars)

InitNormalize ==
    /\ text \in NormalizeTexts
    /\ metrics = BusinessMetrics
    /\ CallInit

\* lines 286-287 on the text
Normalize ==
    /\ pc = "call"
    /\ returned' = [text_cleaned |-> TextCleaned(text),
                    text_lower |-> TextLower(text)]
    /\ pc' = "returned"
    /\ UNCHANGED <<text, kind, pat, tried, extracted, metrics, confidence_scores,
                   raised, rebuilt, raw_score, risk, doc, analysis, portfolio,
                   engine, calls>>

NextNormalize == Normalize

SpecNormalize == InitNormalize /\ [][NextNormalize]_vars

----------------------------------------------------------------------------
(* The business API for one job: doc is outputs/<job_id>.json (NoDoc without
   the file), analysis is outputs/<job_id>_analysis.json (NoRecord without the
   file), calls the requests served so far, returned the last response *)

\* the endpoints that read the stored analysis
FollowUps ==
    {"risk-assessment", "revenue-optimization", "compliance-report",
     "market-intelligence", "tenant-retention"}

\* the keys each of them reads under analysis_data['analysis']
AnalysisKeysRead(e) ==
    CASE e = "risk-assessment" -> {"risk_assessment"}
      [] e = "revenue-optimization" -> {"revenue_opportunities", "market_analysis"}
      [] e = "compliance-report" -> {"compliance_report"}
      [] e = "market-intelligence" -> {"business_metrics", "market_analysis"}
      [] e = "tenant-retention" -> {"portfolio_insights", "risk_assessment"}

\* analyze_lease_business_metrics(job_id) on the files d and file: the status
\* of the response and the analysis file after it
AnalyzeLeaseBusinessMetrics(d, file) ==
    IF d = NoDoc THEN [status |-> 404, file |-> file]
    ELSE LET r == AnalyzeDocument(d)
         IN  IF r.raised # "none" THEN [status |-> 500, file |-> file]
             ELSE [status |-> 200,
                   file |-> [status |-> "success",
                             analysis_type |-> "business_intelligence",
                             business_intelligence |-> r.analysis]]

\* a follow-up endpoint on the files d and file: without the analysis file
\* it returns what analyze_lease_business_metrics returns; with it, it reads
\* analysis_data['analysis'] and the keys under it, a KeyError is a 500
FollowUp(e, d, file) ==
    IF file = NoRecord THEN AnalyzeLeaseBusinessMetrics(d, file)
    ELSE IF "analysis" \notin DOMAIN file THEN [status |-> 500, file |-> file]
    ELSE IF ~(AnalysisKeysRead(e) \subseteq DOMAIN file.analysis)
    THEN [status |-> 500, file |-> file]
    ELSE [status |-> 200, file |-> file]

\* the response to a request of the endpoint e; a route that
\* setup_business_intelligence did not register is a 404
Serve(e, r) ==
    /\ pc = "serve"
    /\ Len(calls) < MaxRequests
    /\ LET response == IF engine.routes_registered THEN r
                       ELSE [status |-> 404, file |-> analysis]
       IN  /\ analysis' = response.file
           /\ returned' = [endpoint |-> e, status |-> response.status]
           /\ calls' = Append(calls, [endpoint |-> e,
                                      stored |-> analysis # NoRecord,
                                      status |-> response.status])
    /\ UNCHANGED <<text, pc, kind, pat, tried, extracted, metrics,
                   confidence_scores, raised, rebuilt, raw_score, risk, doc,
                   portfolio, engine>>

\* GET /api/business/analyze/<job_id>
GetAnalyze == Serve("analyze", AnalyzeLeaseBusinessMetrics(doc, analysis))

\* GET /api/business/<e>/<job_id> for a follow-up endpoint e
GetFollowUp(e) == Serve(e, FollowUp(e, doc, analysis))

ApiDocuments == {NoDoc} \cup PortfolioDocuments

InitApi ==
    /\ doc \in ApiDocuments
    /\ engine \in {[routes_registered |-> b] : b \in BOOLEAN}
    /\ pc = "serve"
    /\ text = EmptyText
    /\ metrics = BusinessMetrics
    /\ confidence_scores = <<>>
    /\ kind = 1
    /\ pat = 1
    /\ tried = <<>>
    /\ extracted = {}
    /\ raised = "none"
    /\ rebuilt = NoRecord
    /\ raw_score = 0
    /\ risk = NoRecord
    /\ analysis = NoRecord
    /\ returned = NoRecord
    /\ portfolio = NoRecord
    /\ calls = <<>>

NextApi ==
    \/ GetAnalyze
    \/ \E e \in FollowUps : GetFollowUp(e)

SpecApi == InitApi /\ [][NextApi]_vars

----------------------------------------------------------------------------
(* The risk scorer alone: assess(text, metrics) for the inputs of the model *)

\* a BusinessMetrics record with the fields the risk rules read
MetricsOf(rent, deposit, penalty, notice, late, application) ==
    Derive([BusinessMetrics EXCEPT
               !.monthly_rent = Dollars(rent),
               !.security_deposit = Dollars(deposit),
               !.early_termination_penalty = Dollars(penalty),
               !.notice_period_days = notice,
               !.late_fee = Dollars(late),
               !.application_fee = Dollars(application)])

\* every tier of every financial rule, with and without a rent
RiskMetrics ==
    {MetricsOf(r, d, p, n, l, a) :
        r \in {0, 1000}, d \in {0, 1500, 1501, 2000, 2001},
        p \in {0, 1000, 1001, 2000, 2001}, n \in {0, 45, 46, 60, 61},
        l \in {0, 100, 101}, a \in {0, 100, 101}}

ScenarioA == MetricsOf(1000, 2500, 2500, 90, 0, 0)

\* no rule fires, three rules fire (37 points), every rule fires (50 points)
KeyMetrics ==
    {BusinessMetrics, ScenarioA, MetricsOf(1000, 2500, 2500, 90, 150, 150)}

RiskPhrases ==
    {aggressive_terms[i].term : i \in 1..Len(aggressive_terms)}
    \cup {unfavorable_clauses[i].term : i \in 1..Len(unfavorable_clauses)}

PlainText == TextOf(120, {}, NoInstances)

RiskTexts ==
    {t \in {TextOf(120, P, inst) :
                P \in {Q \in SUBSET RiskPhrases : Cardinality(Q) <= MaxPhrases},
                inst \in [Categories -> 0..MaxInstances]} :
        WellFormed(t)}

RiskInputs ==
    (RiskMetrics \X {PlainText}) \cup (KeyMetrics \X RiskTexts)

InitRisk ==
    /\ \E i \in RiskInputs : metrics = i[1] /\ text = i[2]
    /\ pc = "assess"
    /\ confidence_scores = <<>>
    /\ kind = 1
    /\ pat = 1
    /\ tried = <<>>
    /\ extracted = {}
    /\ raised = "none"
    /\ rebuilt = NoRecord
    /\ raw_score = 0
    /\ risk = NoRecord
    /\ doc = NoDoc
    /\ analysis = NoRecord
    /\ OthersIdle

NextRisk == Assess

SpecRisk == InitRisk /\ [][NextRisk]_vars

----------------------------------------------------------------------------
(* Properties of the extractor, checked under SpecExtract *)

Returned == pc = "extracted"

\* the capture of the i-th pattern tried parses to a number the claims call
\* in range, the ranges written as the specification states them (in dollars,
\* days and months)
StatedLow ==
    [rent |-> 100 * 100, security_deposit |-> 0, pet_fee |-> 0, late_fee |-> 0,
     application_fee |-> 0, parking_fee |-> 0, notice_period |-> 1,
     lease_term |-> 1, termination_fee |-> 0]

StatedHigh ==
    [rent |-> <<100000 * 100>>, security_deposit |-> <<100000 * 100>>,
     pet_fee |-> <<10000 * 100>>, late_fee |-> <<500 * 100>>,
     application_fee |-> <<500 * 100>>, parking_fee |-> <<1000 * 100>>,
     notice_period |-> <<365>>, lease_term |-> <<60>>, termination_fee |-> <<>>]

InStatedRange(k, v) ==
    /\ StatedLow[k] <= v
    /\ \A i \in 1..Len(StatedHigh[k]) : v <= StatedHigh[k][i]

Acceptable(k, c) ==
    /\ c # NoMatch
    /\ ParseCapture(k, c).ok
    /\ InStatedRange(k, ParseCapture(k, c).value)

\* C1: every metric of the record is 0 (unset) or inside its stated range:
\* rent [100,100000], deposit [0,100000], pet fee [0,10000], notice [1,365]
\* days, lease term [1,60] months, late fee [0,500], application fee [0,500],
\* parking fee [0,1000], termination penalty >= 0.
C1_MetricsInRange ==
    \A i \in 1..Len(Kinds) :
        \/ metrics[FieldOf[Kinds[i]]] = 0
        \/ InStatedRange(Kinds[i], metrics[FieldOf[Kinds[i]]])

\* a returned record with values accepted for several kinds, next to a rent
\* capture that was out of range
C1_Witness ==
    /\ Returned
    /\ metrics.monthly_rent = 240700
    /\ metrics.late_fee = 7550
    /\ metrics.notice_period_days = 90
    /\ metrics.lease_duration_months = 12
    /\ metrics.early_termination_penalty = 250000
    /\ metrics.application_fee = 0
    /\ metrics.parking_fee = 0

\* C2: the patterns of a kind are tried in table order; the value of the
\* metric is the one of the first pattern whose capture parses to a number in
\* range, no pattern after that one is tried, and the metric stays 0 when no
\* pattern is accepted (then every pattern of the list has been tried).
C2_FirstAcceptedWins ==
    pc \in {"extract", "extracted"} =>
        LET A == {i \in 1..Len(tried) : Acceptable(Kind, tried[i])}
        IN  /\ Len(tried) <= patterns[Kind]
            /\ IF A = {}
               THEN /\ metrics[FieldOf[Kind]] = 0
                    /\ LoopDone <=> Len(tried) = patterns[Kind]
               ELSE /\ A = {Len(tried)}
                    /\ LoopDone
                    /\ metrics[FieldOf[Kind]] =
                           ParseCapture(Kind, tried[Len(tried)]).value

\* the rent loop ended at its third pattern: no match, $50 (below the range),
\* then $1,000, with five patterns left untried
C2_Witness ==
    /\ pc = "extract"
    /\ Kind = "rent"
    /\ LoopDone
    /\ tried = <<NoMatch, <<"5", "0">>, <<"1", ",", "0", "0", "0">>>>
    /\ metrics.monthly_rent = 100000

\* C3: no exception leaves the extractor; a capture that does not parse, or
\* parses to a number out of range, counts as no match: the loop goes on to
\* the next pattern of the kind, and the later kinds are still processed.
C3_NeverRaises ==
    /\ raised = "none"
    /\ pc # "raised"
    /\ pc = "extract" =>
          \A i \in 1..Len(tried) :
              ~Acceptable(Kind, tried[i]) => (i < Len(tried) \/ pat = i + 1)

\* the termination fee loop met a capture that float() rejects (","), went on
\* and accepted $2,500 from its next pattern, after the deposit loop had been
\* through the same and the record was returned
C3_Witness ==
    /\ Returned
    /\ tried = <<<<",">>, <<"2", ",", "5", "0", "0">>>>
    /\ metrics.early_termination_penalty = 250000
    /\ metrics.security_deposit = 290700

\* the weights the specification states for the four weighted kinds
StatedWeight ==
    [rent |-> 90, security_deposit |-> 85, notice_period |-> 80, lease_term |-> 85]

StatedWeighted == <<"rent", "security_deposit", "notice_period", "lease_term">>

StatedContribution(k) == IF k \in extracted THEN StatedWeight[k] ELSE 0

\* C4: extraction_confidence is the mean of the contributions of the four
\* weighted kinds, each its weight when extracted and 0 when never matched,
\* and lies in [0,1].
C4_MeanOfContributions ==
    Returned =>
        LET c == metrics.extraction_confidence
        IN  /\ c.num * Len(StatedWeighted) =
                   c.den * ( StatedContribution("rent")
                           + StatedContribution("security_deposit")
                           + StatedContribution("notice_period")
                           + StatedContribution("lease_term") )
            /\ 0 <= c.num
            /\ c.num <= 100 * c.den

\* C5: in the record the extractor returns, and in the record the portfolio
\* aggregator builds again from its dictionary, total_monthly_cost is
\* monthly_rent + pet_fees + utility_costs + parking_fee.
C5_TotalMonthlyCost ==
    /\ Returned =>
          metrics.total_monthly_cost =
              metrics.monthly_rent + metrics.pet_fees
            + metrics.utility_costs + metrics.parking_fee
    /\ rebuilt # NoRecord =>
          rebuilt.total_monthly_cost =
              rebuilt.monthly_rent + rebuilt.pet_fees
            + rebuilt.utility_costs + rebuilt.parking_fee

\* rent, pet fee and parking fee extracted, and the record rebuilt
C5_Witness ==
    /\ rebuilt # NoRecord
    /\ metrics.monthly_rent = 100000
    /\ metrics.pet_fees = 2500
    /\ metrics.parking_fee = 5000
    /\ rebuilt.total_monthly_cost = 107500

\* C6: in the record the extractor returns, total_lease_value is 0 when
\* lease_duration_months is 0, and total_monthly_cost * lease_duration_months
\* otherwise.
C6_TotalLeaseValue ==
    Returned =>
        metrics.total_lease_value =
            IF metrics.lease_duration_months = 0 THEN 0
            ELSE ( metrics.monthly_rent + metrics.pet_fees
                 + metrics.utility_costs + metrics.parking_fee )
                 * metrics.lease_duration_months

\* a twelve month lease of $1,000 rent, $25 pet fee and $50 parking fee
C6_Witness ==
    /\ Returned
    /\ metrics.lease_duration_months = 12
    /\ metrics.monthly_rent = 100000
    /\ metrics.pet_fees = 2500
    /\ metrics.parking_fee = 5000
    /\ metrics.total_lease_value = 107500 * 12

\* a returned record without a lease term: the value stays 0
C6_WitnessNoTerm ==
    /\ Returned
    /\ metrics.lease_duration_months = 0
    /\ metrics.monthly_rent = 100000

----------------------------------------------------------------------------
(* Properties of the risk scorer, checked under SpecRisk *)

Assessed == pc = "assessed"

\* C7: the risk_score of the RiskAssessment is min(raw score, 100), and so in
\* [0,100], also when the weights of the rules that fired add up to more.
C7_ScoreClamped ==
    Assessed =>
        /\ risk.risk_score = IF raw_score <= 100 THEN raw_score ELSE 100
        /\ 0 <= risk.risk_score
        /\ risk.risk_score <= 100

\* every financial rule, every compliance category and three phrases fired
C7_Witness ==
    /\ Assessed
    /\ raw_score > 100
    /\ risk.risk_score = 100

\* C8: the level is read off the raw score: LOW up to 25, MEDIUM up to 50,
\* HIGH up to 75, CRITICAL above; a raw score of 140 is CRITICAL and is
\* stored as 100.
C8_LevelFromRawScore ==
    Assessed =>
        /\ risk.risk_level =
               IF raw_score <= 25 THEN "low"
               ELSE IF raw_score <= 50 THEN "medium"
               ELSE IF raw_score <= 75 THEN "high"
               ELSE "critical"
        /\ raw_score = 140 => risk.risk_level = "critical" /\ risk.risk_score = 100

C8_Witness ==
    /\ Assessed
    /\ raw_score = 140
    /\ risk.risk_level = "critical"
    /\ risk.risk_score = 100

\* the raw scores on both sides of each threshold are reached
C8_Witness25 == Assessed /\ raw_score = 25 /\ risk.risk_level = "low"
C8_Witness26 == Assessed /\ raw_score = 26 /\ risk.risk_level = "medium"
C8_Witness50 == Assessed /\ raw_score = 50 /\ risk.risk_level = "medium"
C8_Witness51 == Assessed /\ raw_score = 51 /\ risk.risk_level = "high"
C8_Witness75 == Assessed /\ raw_score = 75 /\ risk.risk_level = "high"
C8_Witness76 == Assessed /\ raw_score = 76 /\ risk.risk_level = "critical"

IsScenarioA ==
    /\ metrics = ScenarioA
    /\ text.phrases \cap RiskPhrases = {}
    /\ text.instances = NoInstances

\* C9: scenario A (rent 1000, deposit 2500, termination penalty 2500, notice
\* 90 days, a text without a phrase of the tables and without a compliance
\* match) scores 15 + 12 + 10 = 37: MEDIUM, risk_score 37, and a financial
\* exposure of 2500 + 2500 + 2 * 1000 = 7000.
C9_ScenarioA ==
    (Assessed /\ IsScenarioA) =>
        /\ raw_score = 37
        /\ risk.risk_level = "medium"
        /\ risk.risk_score = 37
        /\ risk.financial_exposure = 7000 * 100
        /\ risk.risk_factors =
               [n \in {"excessive_deposit", "high_termination_penalty",
                       "extended_notice"} |->
                   CASE n = "excessive_deposit" -> 15
                     [] n = "high_termination_penalty" -> 12
                     [] n = "extended_notice" -> 10]

C9_Witness ==
    /\ Assessed
    /\ IsScenarioA
    /\ risk.financial_exposure = 700000

----------------------------------------------------------------------------
(* Properties of analyze_document, checked under SpecDoc *)

NoText == ~(doc.has_data /\ doc.has_full_text) \/ doc.full_text.length = 0

\* C10: analyze_document of an empty text, or of a record without a text,
\* raises nothing and returns business metrics whose fields are all 0, an
\* extraction_confidence of 0 and a confidence_score of 50.
C10_EmptyInput ==
    NoText =>
        /\ raised = "none"
        /\ pc # "raised"
        /\ pc = "done" =>
              /\ \A f \in DOMAIN analysis.business_metrics \ {"extraction_confidence"} :
                     analysis.business_metrics[f] = 0
              /\ analysis.business_metrics.extraction_confidence.num = 0
              /\ analysis.confidence_score = 50

\* the call returned for a record that has no 'data'
C10_Witness ==
    /\ pc = "done"
    /\ ~doc.has_data
    /\ analysis.confidence_score = 50
    /\ confidence_scores = <<0, 0>>

\* the call returned for the text ''
C10_WitnessEmptyText ==
    /\ pc = "done"
    /\ doc.has_data /\ doc.has_full_text
    /\ doc.full_text.length = 0
    /\ analysis.confidence_score = 50

----------------------------------------------------------------------------
(* Properties of the rules of the risk scorer, checked under SpecRisk *)

\* the points of the deposit, termination and notice tiers as stated
StatedDepositTier(m) ==
    IF m.security_deposit > 2 * m.monthly_rent THEN 15
    ELSE IF 2 * m.security_deposit > 3 * m.monthly_rent THEN 8 ELSE 0

StatedTerminationTier(m) ==
    IF m.early_termination_penalty > 2 * m.monthly_rent THEN 12
    ELSE IF m.early_termination_penalty > m.monthly_rent THEN 6 ELSE 0

StatedNoticeTier(m) ==
    IF m.notice_period_days > 60 THEN 10
    ELSE IF m.notice_period_days > 45 THEN 5 ELSE 0

\* the points the late fee and the application fee rule add
StatedFeePoints(m) ==
    (IF 10 * m.late_fee > m.monthly_rent THEN 8 ELSE 0)
    + (IF m.application_fee > Dollars(100) THEN 5 ELSE 0)

\* the factor is recorded with these points exactly when the tier has them
TierRecorded(name, points, tier) ==
    IF tier = points
    THEN name \in DOMAIN risk.risk_factors /\ risk.risk_factors[name] = points
    ELSE name \notin DOMAIN risk.risk_factors

\* C18: of the two tiers of the deposit rule, of the termination rule and of
\* the notice rule exactly one or none applies, the higher one first;
\* risk_factors never holds both tiers of a pair, and on a text that fires
\* no other rule the raw score is the sum of the tiers and the fee rules.
C18_TiersExclusive ==
    Assessed =>
        /\ TierRecorded("excessive_deposit", 15, StatedDepositTier(metrics))
        /\ TierRecorded("high_deposit", 8, StatedDepositTier(metrics))
        /\ TierRecorded("high_termination_penalty", 12, StatedTerminationTier(metrics))
        /\ TierRecorded("termination_penalty", 6, StatedTerminationTier(metrics))
        /\ TierRecorded("extended_notice", 10, StatedNoticeTier(metrics))
        /\ TierRecorded("long_notice", 5, StatedNoticeTier(metrics))
        /\ text = PlainText =>
              raw_score = StatedDepositTier(metrics) + StatedTerminationTier(metrics)
                        + StatedNoticeTier(metrics) + StatedFeePoints(metrics)

\* the lower tier of each of the three rules applied
C18_Witness ==
    /\ Assessed
    /\ metrics.monthly_rent > 0
    /\ DOMAIN risk.risk_factors = {"high_deposit", "termination_penalty", "long_notice"}
    /\ raw_score = 19

\* the higher tier of each of the three rules applied, to a deposit and a
\* penalty that are also above the lower threshold
C18_WitnessHigher ==
    /\ Assessed
    /\ metrics.monthly_rent > 0
    /\ DOMAIN risk.risk_factors =
           {"excessive_deposit", "high_termination_penalty", "extended_notice"}
    /\ raw_score = 37

RECURSIVE SumValues(_)
SumValues(f) ==
    IF DOMAIN f = {} THEN 0
    ELSE LET n == CHOOSE x \in DOMAIN f : TRUE
         IN  f[n] + SumValues([x \in DOMAIN f \ {n} |-> f[x]])

\* C19: the values recorded in risk_factors add up to the raw score.
C19_FactorsSumToRawScore ==
    Assessed => SumValues(risk.risk_factors) = raw_score

\* the weights of the phrases of a table that are in the text
RECURSIVE StatedPhrasePoints(_, _, _)
StatedPhrasePoints(t, table, i) ==
    IF i > Len(table) THEN 0
    ELSE (IF table[i].term \in t.phrases THEN table[i].severity ELSE 0)
         + StatedPhrasePoints(t, table, i + 1)

\* the points of the compliance categories that have a match
StatedCompliancePoints(t) ==
    (IF t.instances["discrimination"] > 0 THEN 25 ELSE 0)
    + (IF t.instances["illegal_fees"] > 0 THEN 15 ELSE 0)
    + (IF t.instances["habitability"] > 0 THEN 15 ELSE 0)

\* the financial rules that append a red flag
StatedFinancialFlags(m) ==
    (IF m.security_deposit > 2 * m.monthly_rent THEN 1 ELSE 0)
    + (IF m.early_termination_penalty > 2 * m.monthly_rent THEN 1 ELSE 0)
    + (IF m.notice_period_days > 60 THEN 1 ELSE 0)
    + (IF 10 * m.late_fee > m.monthly_rent THEN 1 ELSE 0)

\* the phrases of both tables that are in the text, aggressive terms first,
\* each table in its order
StatedPhraseFlags(t) ==
    SelectSeq([i \in 1..(Len(aggressive_terms) + Len(unfavorable_clauses)) |->
                  IF i <= Len(aggressive_terms)
                  THEN <<"Aggressive lease language", aggressive_terms[i].term>>
                  ELSE <<"Tenant-unfavorable clause",
                         unfavorable_clauses[i - Len(aggressive_terms)].term>>],
              LAMBDA e : e[2] \in t.phrases)

\* C20: every phrase of the two tables that is in the text adds its own
\* weight to the raw score and one red flag, an absent phrase adds nothing,
\* and red_flags holds the flags of the financial rules, then those of the
\* aggressive terms in table order, then those of the unfavorable clauses in
\* table order.
C20_PhrasesAccumulate ==
    Assessed =>
        /\ raw_score = StatedDepositTier(metrics) + StatedTerminationTier(metrics)
                     + StatedNoticeTier(metrics) + StatedFeePoints(metrics)
                     + StatedPhrasePoints(text, aggressive_terms, 1)
                     + StatedPhrasePoints(text, unfavorable_clauses, 1)
                     + StatedCompliancePoints(text)
        /\ Len(risk.red_flags) =
               StatedFinancialFlags(metrics) + Len(StatedPhraseFlags(text))
        /\ SubSeq(risk.red_flags, StatedFinancialFlags(metrics) + 1,
                  Len(risk.red_flags)) = StatedPhraseFlags(text)

\* two aggressive terms and an unfavorable clause after the flags of the
\* financial rules
C20_Witness ==
    /\ Assessed
    /\ StatedFinancialFlags(metrics) = 3
    /\ Cardinality({i \in 1..Len(aggressive_terms) :
                       aggressive_terms[i].term \in text.phrases}) = 2
    /\ Cardinality({i \in 1..Len(unfavorable_clauses) :
                       unfavorable_clauses[i].term \in text.phrases}) = 1
    /\ Len(risk.red_flags) = 6

----------------------------------------------------------------------------
(* Properties of the compliance report, the cost efficiency score and the
   confidence score *)

CountListed(t, list) == Cardinality({i \in 1..Len(list) : list[i] \in t.phrases})

\* 100 less 25 for each discriminatory phrase in the text, 15 for the
\* non-refundable deposit phrase, 5 for each disclosure keyword not in it
StatedCompliance(t) ==
    100 - 25 * CountListed(t, discriminatory_language)
        - (IF "non-refundable deposit" \in t.phrases THEN 15 ELSE 0)
        - 5 * (Len(required_disclosures) - CountListed(t, required_disclosures))

\* C11: compliance_score is max(0, 100 - 25 for each discriminatory phrase
\* present - 15 for the non-refundable deposit phrase - 5 for each required
\* disclosure absent), never negative and never above 100.
C11_ComplianceScore ==
    pc = "returned" =>
        /\ returned.compliance_score =
               IF StatedCompliance(text) > 0 THEN StatedCompliance(text) ELSE 0
        /\ 0 <= returned.compliance_score
        /\ returned.compliance_score <= 100

\* every category at once: five discriminatory phrases, the non-refundable
\* deposit and four missing disclosures take 160 from 100
C11_Witness ==
    /\ pc = "returned"
    /\ StatedCompliance(text) = -60
    /\ returned.compliance_score = 0

\* no violation at all: the score of 100
C11_WitnessClean ==
    /\ pc = "returned"
    /\ returned.compliance_score = 100

\* C14: cost_efficiency_score is the sum of four sub-scores each between 0
\* and 25, so it lies in [0,100], and computing it divides by no zero, also
\* for a security_deposit of 0 and a total_monthly_cost of 0.
C14_CostEfficiency ==
    /\ pc # "call" =>
          /\ raised = "none"
          /\ pc = "returned"
          /\ returned.den > 0
          /\ 0 <= returned.num
          /\ returned.num <= 100 * returned.den
          /\ \E fee, notice, penalty \in 0..25 :
                 LET ratio == returned.num - (fee + notice + penalty) * returned.den
                 IN  0 <= ratio /\ ratio <= 25 * returned.den

\* a rent without a deposit: the division is not made and the ratio counts 25
C14_Witness ==
    /\ pc = "returned"
    /\ metrics.security_deposit = 0
    /\ metrics.monthly_rent > 0
    /\ returned.num = 100 * returned.den

\* a record without monthly cost: the score is 0
C14_WitnessNoCost ==
    /\ pc = "returned"
    /\ metrics.total_monthly_cost = 0
    /\ metrics.security_deposit > 0
    /\ returned.num = 0

\* a ratio below its cap: 10 * 1000 / 2000 = 5 and three times 10
C14_WitnessRatio ==
    /\ pc = "returned"
    /\ returned.num = 35 * returned.den

StatedConfidence(t) ==
    50 + (IF t.length > 10000 THEN 20 ELSE IF t.length > 5000 THEN 10 ELSE 0)
       + (IF "lease agreement" \in t.phrases THEN 15 ELSE 0)
       + 3 * Cardinality({"rent", "deposit", "tenant", "landlord", "term"}
                         \cap t.phrases)

\* C15: confidence_score is min(95, 50 + 20 for a text of more than 10000
\* characters or 10 for one of more than 5000 + 15 for "lease agreement"
\* + 3 for each of rent, deposit, tenant, landlord, term in the text), and
\* so in [50,95].
C15_ConfidenceScore ==
    pc = "done" =>
        /\ analysis.confidence_score =
               IF StatedConfidence(FullText(doc)) < 95
               THEN StatedConfidence(FullText(doc)) ELSE 95
        /\ 50 <= analysis.confidence_score
        /\ analysis.confidence_score <= 95

\* a long text with every phrase: 50 + 20 + 15 + 15 is capped at 95
C15_Witness ==
    /\ pc = "done"
    /\ StatedConfidence(FullText(doc)) = 100
    /\ analysis.confidence_score = 95

\* a text of 5001 characters with two keywords: 50 + 10 + 6
C15_WitnessMedium ==
    /\ pc = "done"
    /\ doc.full_text.length = 5001
    /\ analysis.confidence_score = 66

----------------------------------------------------------------------------
(* Properties of analyze_portfolio, checked under SpecPortfolio *)

Summarised == pc = "summarised"

Insights == portfolio.result.portfolio_insights

\* C12: analyze_portfolio of no documents raises nothing and returns
\* total_properties 0, portfolio_risk_score 0, total_annual_revenue 0,
\* total_risk_exposure 0, every count of risk_distribution 0, no
\* performance_benchmarks and an executive_summary with every entry.
C12_EmptyPortfolio ==
    portfolio.lease_documents = <<>> =>
        /\ raised = "none"
        /\ pc # "raised"
        /\ Summarised =>
              /\ Insights.total_properties = 0
              /\ Insights.portfolio_risk_score.num = 0
              /\ Insights.portfolio_risk_score.den > 0
              /\ Insights.total_annual_revenue = 0
              /\ Insights.total_risk_exposure = 0
              /\ \A level \in {"low", "medium", "high", "critical"} :
                     Insights.risk_distribution[level] = 0
              /\ DOMAIN Insights.performance_benchmarks = {}
              /\ portfolio.result.individual_analyses = <<>>
              /\ portfolio.result.executive_summary =
                     [portfolio_size |-> 0, annual_revenue |-> 0,
                      risk_assessment |-> "low", optimization_potential |-> 0,
                      key_recommendations |-> <<>>,
                      immediate_actions_required |-> 0]

\* the empty portfolio was summarised
C12_Witness ==
    /\ Summarised
    /\ portfolio.lease_documents = <<>>
    /\ Insights.total_properties = 0

Analyses == portfolio.result.individual_analyses

\* C13: for documents, portfolio_risk_score is the mean of the stored
\* risk_score of their analyses, total_annual_revenue the sum of their
\* total_lease_value and total_risk_exposure the sum of their
\* financial_exposure; the scores 10 (low) and 60 (high) give 35 and the
\* distribution low 1, medium 0, high 1, critical 0.
C13_PortfolioMeansAndSums ==
    Summarised /\ portfolio.lease_documents # <<>> =>
        LET n == Len(Analyses)
            scores == [i \in 1..n |-> Analyses[i].risk_assessment.risk_score]
        IN  /\ Insights.portfolio_risk_score.num * n =
                   SumSeq(scores) * Insights.portfolio_risk_score.den
            /\ Insights.total_annual_revenue =
                   SumSeq([i \in 1..n |-> Analyses[i].business_metrics.total_lease_value])
            /\ Insights.total_risk_exposure =
                   SumSeq([i \in 1..n |-> Analyses[i].risk_assessment.financial_exposure])
            /\ {scores[i] : i \in 1..n} = {10, 60} /\ n = 2 =>
                   /\ Insights.portfolio_risk_score.num =
                          35 * Insights.portfolio_risk_score.den
                   /\ Insights.risk_distribution =
                          [low |-> 1, medium |-> 0, high |-> 1, critical |-> 0]

\* the documents of 10 and of 60 points were aggregated
C13_Witness ==
    /\ Summarised
    /\ portfolio.lease_documents = <<LowDocument, HighDocument>>
    /\ Analyses[1].risk_assessment.risk_level = "low"
    /\ Analyses[2].risk_assessment.risk_level = "high"
    /\ Insights.portfolio_risk_score = [num |-> 70, den |-> 2]

\* a document of 112 points counts with its stored score of 100, and a lease
\* value is part of the revenue
C13_WitnessStored ==
    /\ Summarised
    /\ portfolio.lease_documents = <<CriticalDocument, CleanDocument>>
    /\ Insights.portfolio_risk_score = [num |-> 100, den |-> 2]
    /\ RiskLocals(FullText(CriticalDocument),
                  Analyses[1].business_metrics).risk_score = 112
    /\ Insights.total_annual_revenue = 12 * 240700

\* C16: individual_analyses is as long as the input and its i-th entry is the
\* analysis analyze_document returns for the i-th document alone, whatever
\* the other documents and their places; the documents are analysed in the
\* order of the input.
C16_InputOrder ==
    /\ pc = "loop" =>
          \A i \in 1..Len(portfolio.portfolio_metrics) :
              portfolio.portfolio_metrics[i] =
                  AnalyzeDocument(portfolio.lease_documents[i]).analysis
    /\ Summarised =>
          /\ Len(Analyses) = Len(portfolio.lease_documents)
          /\ \A i \in 1..Len(Analyses) :
                 Analyses[i] = AnalyzeDocument(portfolio.lease_documents[i]).analysis

\* two different documents were analysed, and the second is analysed as it
\* is when it is the only document
C16_Witness ==
    /\ Summarised
    /\ Len(Analyses) = 2
    /\ Analyses[1] # Analyses[2]
    /\ Analyses[2] = AnalyzeDocument(MediumDocument).analysis
    /\ Analyses[2].business_metrics.monthly_rent = Dollars(1000)

----------------------------------------------------------------------------
(* Properties of calls on a shared engine, checked under SpecShared *)

\* C17: however the steps of the analyze_document calls on one engine are
\* interleaved, no call raises, every call returns the analysis it returns
\* when it runs alone, the tables of the engine stay as constructed, and the
\* BusinessMetrics record of a call stays as the extractor returned it
\* through the risk, market, insight and opportunity steps.
C17_CallsIndependent ==
    /\ engine = EngineTables
    /\ \A c \in DOMAIN calls :
           /\ calls[c].pc # "raised"
           /\ calls[c].pc # "extract" =>
                  calls[c].metrics =
                      ExtractBusinessMetrics(FullText(calls[c].doc)).metrics
           /\ calls[c].pc = "returned" =>
                  calls[c].result = AnalyzeDocument(calls[c].doc).analysis

\* two calls on different documents, the second extracted while the first
\* was between its steps, both returned
C17_Witness ==
    /\ pc = "calls"
    /\ calls[1].pc = "returned"
    /\ calls[2].pc = "returned"
    /\ calls[1].doc = MediumDocument
    /\ calls[2].doc = CriticalDocument
    /\ calls[1].result # calls[2].result

\* one call has extracted and not yet scored while the other extracts
C17_WitnessInterleaved ==
    /\ pc = "calls"
    /\ calls[1].pc = "assess"
    /\ calls[2].pc = "assess"
    /\ calls[1].doc # calls[2].doc

----------------------------------------------------------------------------
(* Properties of the compliance rules, the recommendations and the stored
   level of the risk scorer, checked under SpecRisk *)

\* the points of the compliance categories, the weight of a category for
\* each of its occurrences
StatedOccurrencePoints(t) ==
    25 * t.instances["discrimination"]
    + 15 * t.instances["illegal_fees"]
    + 15 * t.instances["habitability"]

StatedOccurrences(t) ==
    t.instances["discrimination"] + t.instances["illegal_fees"]
    + t.instances["habitability"]

\* C21: every occurrence found of a compliance category adds the weight of
\* the category (25 for discrimination, 15 otherwise) to the raw score and
\* appends a compliance issue and a mitigation entry of critical priority; a
\* category without occurrence adds nothing.
C21_PerOccurrence ==
    Assessed =>
        /\ raw_score = StatedDepositTier(metrics) + StatedTerminationTier(metrics)
                     + StatedNoticeTier(metrics) + StatedFeePoints(metrics)
                     + StatedPhrasePoints(text, aggressive_terms, 1)
                     + StatedPhrasePoints(text, unfavorable_clauses, 1)
                     + StatedOccurrencePoints(text)
        /\ Len(risk.compliance_issues) = StatedOccurrences(text)
        /\ Cardinality({i \in 1..Len(risk.mitigation_strategies) :
                           risk.mitigation_strategies[i].priority = "critical"})
               = StatedOccurrences(text)

Recommended(r) == \E i \in 1..Len(risk.recommendations) : risk.recommendations[i][1] = r

\* C22: the recommendation to engage legal counsel is made exactly when the
\* raw score all rules added up to is above 75, the recommendation of a legal
\* review exactly when it is above 50 and at most 75, never both, and the
\* recommendation to negotiate the deposit only when a deposit rule fired.
C22_Recommendations ==
    Assessed =>
        /\ Recommended("CRITICAL: Engage legal counsel before signing")
               <=> raw_score > 75
        /\ Recommended("Consider legal review of high-risk clauses")
               <=> (50 < raw_score /\ raw_score <= 75)
        /\ ~ ( /\ Recommended("CRITICAL: Engage legal counsel before signing")
               /\ Recommended("Consider legal review of high-risk clauses") )
        /\ Recommended("Negotiate security deposit from $ to $ (1.5x rent)")
               => \E f \in {"excessive_deposit", "high_deposit"} :
                      f \in DOMAIN risk.risk_factors

\* legal counsel is recommended for a score that only the rules after the
\* financial ones bring above 75, together with the deposit negotiation
C22_Witness ==
    /\ Assessed
    /\ raw_score > 75
    /\ StatedDepositTier(metrics) + StatedTerminationTier(metrics)
           + StatedNoticeTier(metrics) + StatedFeePoints(metrics) <= 50
    /\ Recommended("CRITICAL: Engage legal counsel before signing")
    /\ Recommended("Negotiate security deposit from $ to $ (1.5x rent)")

\* a score of exactly 75 gets the legal review
C22_WitnessReview ==
    /\ Assessed
    /\ raw_score = 75
    /\ Recommended("Consider legal review of high-risk clauses")

\* a score of exactly 50 gets neither
C22_WitnessNeither ==
    /\ Assessed
    /\ raw_score = 50
    /\ ~Recommended("Consider legal review of high-risk clauses")

\* the level of a score by the thresholds 25, 50 and 75
StatedLevel(score) ==
    IF score <= 25 THEN "low"
    ELSE IF score <= 50 THEN "medium"
    ELSE IF score <= 75 THEN "high"
    ELSE "critical"

\* C28: the level that the thresholds 25, 50 and 75 give the stored, clamped
\* risk_score is the risk_level stored with it, also for a raw score above 100.
C28_StoredLevelConsistent ==
    Assessed => StatedLevel(risk.risk_score) = risk.risk_level

\* a raw score above 100 is stored as 100 with the level critical
C28_Witness ==
    /\ Assessed
    /\ raw_score > 100
    /\ risk.risk_score = 100
    /\ risk.risk_level = "critical"

----------------------------------------------------------------------------
(* Properties of the revenue opportunities, checked under SpecOpportunities *)

StatedOrder == <<"rent_optimization", "parking_monetization", "utility_recovery">>

\* the place of a type in the stated order
OrderOf(type) == CHOOSE i \in 1..Len(StatedOrder) : StatedOrder[i] = type

HasOpportunity(opps, type) == \E i \in 1..Len(opps) : opps[i].type = type

\* C23: the opportunities are at most three, at most one of each type, in
\* the order rent_optimization, parking_monetization, utility_recovery; the
\* rent_optimization is there exactly when the rent is below 95% of the
\* market rent of 2600, with the annual_impact (2600 - rent) * 12, above 0.
C23_Opportunities ==
    pc = "returned" =>
        /\ Len(returned) <= 3
        /\ \A i \in 1..Len(returned) :
               \E j \in 1..Len(StatedOrder) : returned[i].type = StatedOrder[j]
        /\ \A i, j \in 1..Len(returned) :
               i < j => OrderOf(returned[i].type) < OrderOf(returned[j].type)
        /\ HasOpportunity(returned, "rent_optimization")
               <=> 100 * metrics.monthly_rent < 95 * Dollars(2600)
        /\ \A i \in 1..Len(returned) :
               returned[i].type = "rent_optimization" =>
                   /\ returned[i].annual_impact =
                          (Dollars(2600) - metrics.monthly_rent) * 12
                   /\ returned[i].annual_impact > 0

\* all three opportunities, for a rent one cent below 95% of the market rent
C23_Witness ==
    /\ pc = "returned"
    /\ metrics.monthly_rent = 246999
    /\ Len(returned) = 3
    /\ returned[1].annual_impact = 13001 * 12

\* no opportunity for a rent of 95% of the market rent
C23_WitnessNone ==
    /\ pc = "returned"
    /\ metrics.monthly_rent = 247000
    /\ returned = <<>>

----------------------------------------------------------------------------
(* Properties of the portfolio summary, checked under SpecPortfolio *)

Levels == {"low", "medium", "high", "critical"}

\* the number of analyses of the portfolio with the risk level level
CountLevel(level) ==
    Cardinality({i \in 1..Len(Analyses) :
                    Analyses[i].risk_assessment.risk_level = level})

\* C24: each count of risk_distribution is the number of documents whose
\* analysis has that risk_level, and the four counts add up to
\* total_properties.
C24_RiskDistribution ==
    Summarised =>
        /\ \A level \in Levels :
               Insights.risk_distribution[level] = CountLevel(level)
        /\ Insights.risk_distribution["low"] + Insights.risk_distribution["medium"]
             + Insights.risk_distribution["high"]
             + Insights.risk_distribution["critical"] = Insights.total_properties

\* a medium and a critical document were counted
C24_Witness ==
    /\ Summarised
    /\ portfolio.lease_documents = <<MediumDocument, CriticalDocument>>
    /\ Insights.risk_distribution =
           [low |-> 0, medium |-> 1, high |-> 0, critical |-> 1]
    /\ Insights.total_properties = 2

Opportunities == Insights.optimization_opportunities

ExecutiveSummary == portfolio.result.executive_summary

\* the opportunity at i comes before the one at j in the order of descending
\* potential_impact that keeps the input order of equal impacts
Before(i, j) ==
    \/ PotentialImpact(Opportunities[i]) > PotentialImpact(Opportunities[j])
    \/ /\ PotentialImpact(Opportunities[i]) = PotentialImpact(Opportunities[j])
       /\ i < j

\* the place of the opportunity at i in that order
RankOf(i) == 1 + Cardinality({j \in 1..Len(Opportunities) : Before(j, i)})

C26_RiskAssessmentLabel ==
    Summarised =>
        LET score == Insights.portfolio_risk_score
            label == ExecutiveSummary.risk_assessment
        IN  /\ score.den > 0
            /\ label = "high" <=> score.num > 70 * score.den
            /\ label = "medium" <=>
                   score.num > 50 * score.den /\ score.num <= 70 * score.den
            /\ label = "low" <=> score.num <= 50 * score.den
            /\ portfolio.lease_documents = <<>> => score.num = 0 /\ label = "low"

\* a score of exactly 50, the mean of 100 and 0, is low
C26_Witness ==
    /\ Summarised
    /\ Len(Analyses) = 2
    /\ Insights.portfolio_risk_score.num = 50 * Insights.portfolio_risk_score.den
    /\ ExecutiveSummary.risk_assessment = "low"

\* a score of 60 is medium
C26_WitnessMedium ==
    /\ Summarised
    /\ Insights.portfolio_risk_score.num = 60 * Insights.portfolio_risk_score.den
    /\ ExecutiveSummary.risk_assessment = "medium"

\* a score of 100 is high
C26_WitnessHigh ==
    /\ Summarised
    /\ Insights.portfolio_risk_score.num = 100 * Insights.portfolio_risk_score.den
    /\ ExecutiveSummary.risk_assessment = "high"

----------------------------------------------------------------------------
(* Properties of the normalization, checked under SpecNormalize *)

\* s holds a digit, whitespace and a digit in a row
HasSplitDigits(s) ==
    \E i, j \in 1..Len(s) :
        /\ i + 1 < j
        /\ IsDigit(s[i])
        /\ IsDigit(s[j])
        /\ \A k \in (i + 1)..(j - 1) : IsSpace(s[k])

\* C27: the normalized text holds no digit, whitespace and digit in a row,
\* and normalizing it again changes nothing.
C27_NoSplitDigitsLeft ==
    pc = "returned" =>
        /\ ~HasSplitDigits(returned.text_cleaned)
        /\ ~HasSplitDigits(returned.text_lower)
        /\ TextCleaned(returned.text_cleaned) = returned.text_cleaned

----------------------------------------------------------------------------
(* Properties of the utility costs, checked under SpecDoc *)

\* C29: the extractor never sets utility_costs, so it is 0 in the record it
\* builds and returns, total_monthly_cost is monthly_rent + pet_fees +
\* parking_fee, and the utility_recovery opportunity is there exactly when
\* the text lacks "tenant pays utilities".
C29_UtilityCostsNeverSet ==
    /\ metrics.utility_costs = 0
    /\ pc \in {"extracted", "done"} =>
           metrics.total_monthly_cost =
               metrics.monthly_rent + metrics.pet_fees + metrics.parking_fee
    /\ pc = "done" =>
           /\ analysis.business_metrics.utility_costs = 0
           /\ analysis.business_metrics.total_monthly_cost =
                  analysis.business_metrics.monthly_rent
                    + analysis.business_metrics.pet_fees
                    + analysis.business_metrics.parking_fee
           /\ HasOpportunity(analysis.revenue_opportunities, "utility_recovery")
                  <=> "tenant pays utilities" \notin FullText(doc).phrases

\* a rent of 2,407, a pet fee of 25 and a parking fee of 50 in a text with
\* "tenant pays utilities": 2,482 a month and no utility_recovery
C29_Witness ==
    /\ pc = "done"
    /\ "tenant pays utilities" \in FullText(doc).phrases
    /\ analysis.business_metrics.pet_fees = Dollars(25)
    /\ analysis.business_metrics.parking_fee = Dollars(50)
    /\ analysis.business_metrics.total_monthly_cost = Dollars(2482)
    /\ ~HasOpportunity(analysis.revenue_opportunities, "utility_recovery")

\* a text without the phrase: the utility_recovery opportunity is there
C29_WitnessRecovery ==
    /\ pc = "done"
    /\ doc.has_full_text
    /\ doc.full_text.length > 0
    /\ "tenant pays utilities" \notin FullText(doc).phrases
    /\ HasOpportunity(analysis.revenue_opportunities, "utility_recovery")

----------------------------------------------------------------------------
(* Properties of the business API, checked under SpecApi *)

\* C30: for a job with an extraction output, every request served returns
\* 200, and so does every request to risk-assessment, revenue-optimization,
\* compliance-report, market-intelligence or tenant-retention that comes
\* after the analysis file was stored; none returns 500.
C30_FollowUpsSucceed ==
    engine.routes_registered /\ doc # NoDoc =>
        \A i \in 1..Len(calls) :
            /\ calls[i].status # 500
            /\ calls[i].stored /\ calls[i].endpoint \in FollowUps =>
                   calls[i].status = 200

====
